---- MODULE Spec2Model ----
(***************************************************************************)
(* A model of test_vendor_lib's LinkLayerController                        *)
(* (system/vendor_libs/test_vendor_lib/model/controller/                   *)
(* link_layer_controller.cc): the simulated Bluetooth link-layer           *)
(* controller that terminates HCI commands, exchanges link-layer packets   *)
(* with peers and defers work through a task scheduler.                    *)
(*                                                                         *)
(* Every controller is a record ctl[d]; a method of the controller is an   *)
(* operator from the record (and the arguments) to the record after the    *)
(* call.  Calls on the registered channels are kept in the record:         *)
(*   hci    what send_event_ / send_acl_ were called with,                 *)
(*   sent   what send_to_remote_ was called with,                          *)
(*   tasks  what the registered scheduler still holds.                     *)
(* `now' is steady_clock::now() in milliseconds.                           *)
(***************************************************************************)
EXTENDS Integers, Sequences, FiniteSets, TLC

VARIABLES ctl, now, call, inputs, log

vars == <<ctl, now, call, inputs, log>>

(***************************************************************************)
(* Bounds of the model.                                                    *)
(***************************************************************************)
\* Handles the connection table can hand out before it has no free handle.
NumHandles == 2
\* Host commands and incoming packets in one behaviour.
MaxInputs == 4
\* Advertising sets of the controller (a device property).
NumAdvertisers == 2
\* The clock stops advancing here.
MaxTime == 300
\* Host commands in one behaviour of the list operations.
MaxListInputs == 5

(***************************************************************************)
(* Addresses: six bytes, printed most significant byte first.              *)
(***************************************************************************)
kEmpty == <<0, 0, 0, 0, 0, 0>>

AddrA == <<1, 2, 3, 4, 5, 6>>

AddrLeA == <<193, 2, 3, 4, 5, 6>>

AddrAdv == <<194, 2, 3, 4, 5, 6>>

AddrP1 == <<10, 11, 12, 13, 14, 15>>

AddrP2 == <<26, 27, 28, 29, 30, 31>>

AddrOther == <<42, 43, 44, 45, 46, 47>>

\* The LE address a device has before the host sets one.
AddrUnsetLe == <<187, 187, 187, 186, 208, 30>>

HexDigits == <<"0", "1", "2", "3", "4", "5", "6", "7",
               "8", "9", "a", "b", "c", "d", "e", "f">>

\* Address::ToString: "xx:xx:xx:xx:xx:xx", lower-case hex, as a sequence of
\* characters.
AddressToString(a) ==
  [i \in 1..17 |->
     IF i % 3 = 0 THEN ":"
     ELSE IF i % 3 = 1 THEN HexDigits[(a[(i + 2) \div 3] \div 16) + 1]
     ELSE HexDigits[(a[(i + 2) \div 3] % 16) + 1]]

\* The literal "bb:bb:bb:ba:d0:1e" of SetLeAdvertisingEnable.
kUnsetLeAddressString ==
  <<"b", "b", ":", "b", "b", ":", "b", "b", ":",
    "b", "a", ":", "d", "0", ":", "1", "e">>

(***************************************************************************)
(* Enumerations of the HCI and link-layer packet definitions.              *)
(***************************************************************************)
SUCCESS == 0
UNKNOWN_HCI_COMMAND == 1
UNKNOWN_CONNECTION == 2
AUTHENTICATION_FAILURE == 5
PIN_OR_KEY_MISSING == 6
COMMAND_DISALLOWED == 12
INVALID_HCI_COMMAND_PARAMETERS == 18
REMOTE_USER_TERMINATED_CONNECTION == 19
CONNECTION_TERMINATED_BY_LOCAL_HOST == 22
INVALID_LMP_OR_LL_PARAMETERS == 30
ENCRYPTION_MODE_NOT_ACCEPTABLE == 37
CONTROLLER_BUSY == 58

PUBLIC_DEVICE_ADDRESS == 0
RANDOM_DEVICE_ADDRESS == 1
PUBLIC_IDENTITY_ADDRESS == 2
RANDOM_IDENTITY_ADDRESS == 3

\* acl::kReservedHandle, the handle that names no connection.
kReservedHandle == 3839

\* kInvalidTaskId of the task scheduler.
kInvalidTaskId == 0

kNumCommandPackets == 1

AddressWithType(a, t) == [address |-> a, type |-> t]

ZeroKey == [i \in 1..16 |-> 0]

\* The key UserConfirmationRequestReply writes: {1, 2, ..., 16}.
kPlaceholderKey == [i \in 1..16 |-> i]

OtherKey == [i \in 1..16 |-> 17 - i]

NoPacket == [type |-> "NONE", src |-> kEmpty, dst |-> kEmpty]

(***************************************************************************)
(* The registered channels.                                                *)
(***************************************************************************)
\* An HCI event as its builder's arguments; t is when it was sent.
Event(ev, status, handle, addr, arg) ==
  [ev |-> ev, status |-> status, handle |-> handle, addr |-> addr,
   arg |-> arg, t |-> now]

send_event_(c, e) == [c EXCEPT !.hci = Append(@, e)]

\* ACL data to the host: handle, packet boundary flag, broadcast flag, payload.
send_acl_(c, handle, pb, bc, payload) ==
  [c EXCEPT !.hci = Append(@, [ev |-> "ACL_DATA", status |-> SUCCESS,
                               handle |-> handle, addr |-> kEmpty,
                               arg |-> <<pb, bc, payload>>, t |-> now])]

send_to_remote_(c, pkt, phy) ==
  [c EXCEPT !.sent = Append(@, [pkt |-> pkt, phy |-> phy, t |-> now])]

\* A callback handed to ScheduleTask: the lambda's name and its captures.
Callback(name, handle, addr, arg) ==
  [name |-> name, handle |-> handle, addr |-> addr, arg |-> arg,
   pkt |-> NoPacket]

SendCallback(pkt, phy) ==
  [name |-> "send_to_remote_", handle |-> kReservedHandle, addr |-> kEmpty,
   arg |-> phy, pkt |-> pkt]

\* A failed ASSERT / LOG_ALWAYS_FATAL terminates the process.
Abort(c) == [c EXCEPT !.aborted = TRUE]

Return(c, code) == [c EXCEPT !.ret = code]

(***************************************************************************)
(* The task scheduler (AsyncManager behind schedule_task_ / cancel_task_): *)
(* one-shot callbacks, run in (due time, insertion) order.                 *)
(***************************************************************************)
Scheduler_Schedule(c, delay, cb) ==
  [c EXCEPT !.tasks = Append(@, [id |-> c.next_task_id, due |-> now + delay,
                                 cb |-> cb]),
            !.next_task_id = @ + 1]

Scheduler_Cancel(c, task_id) ==
  [c EXCEPT !.tasks = SelectSeq(@, LAMBDA k : k.id # task_id)]

\* The position in c.tasks of the task the scheduler runs next, 0 if none.
Scheduler_Next(c) ==
  IF c.tasks = <<>> THEN 0
  ELSE CHOOSE i \in 1..Len(c.tasks) :
         \A j \in 1..Len(c.tasks) :
           \/ c.tasks[i].due < c.tasks[j].due
           \/ (c.tasks[i].due = c.tasks[j].due /\ i <= j)

RemoveAt(s, i) == [j \in 1..(Len(s) - 1) |-> IF j < i THEN s[j] ELSE s[j + 1]]

(***************************************************************************)
(* AclConnectionHandler (connections_): the connection table.              *)
(* c.connections_.acl_connections_ maps each live handle to its record.    *)
(***************************************************************************)
Connections_HasHandle(c, handle) ==
  handle \in DOMAIN c.connections_.acl_connections_

\* The next handle never handed out, the reserved handle if none is free.
Connections_GetUnusedHandle(c) ==
  IF c.connections_.last_handle_ < NumHandles
  THEN c.connections_.last_handle_
  ELSE kReservedHandle

Connections_HasPendingConnection(c, addr) ==
  \E p \in c.connections_.pending_connections_ : p.address = addr

\* The table holds one pending BR/EDR connection.
Connections_CanCreatePendingConnection(c, addr) ==
  /\ ~Connections_HasPendingConnection(c, addr)
  /\ c.connections_.pending_connections_ = {}

\* Returns whether the pending connection was created.
Connections_CreatePendingConnection(c, addr, authenticate_on_connect) ==
  IF Connections_CanCreatePendingConnection(c, addr)
  THEN [c EXCEPT !.connections_.pending_connections_ =
                   @ \cup {[address |-> addr,
                            authenticate |-> authenticate_on_connect]}]
  ELSE c

Connections_CancelPendingConnection(c, addr) ==
  [c EXCEPT !.connections_.pending_connections_ =
              {p \in @ : p.address # addr}]

\* The pending record's authenticate flag (FALSE without a pending record).
Connections_AuthenticatePendingConnection_ret(c) ==
  \E p \in c.connections_.pending_connections_ : p.authenticate

\* ... which the call consumes.
Connections_AuthenticatePendingConnection(c) ==
  [c EXCEPT !.connections_.pending_connections_ =
              {[address |-> p.address, authenticate |-> FALSE] : p \in @}]

Connections_Insert(c, handle, peer, own, phy) ==
  [c EXCEPT !.connections_.acl_connections_ =
              (handle :> [address |-> peer, own_address |-> own, phy |-> phy,
                          encrypted |-> FALSE]) @@ @,
            !.connections_.last_handle_ = @ + 1]

\* The handle CreateConnection returns: the reserved handle without a pending
\* connection for addr or without a free handle.
Connections_CreateConnection_ret(c, addr) ==
  IF Connections_HasPendingConnection(c, addr)
  THEN Connections_GetUnusedHandle(c)
  ELSE kReservedHandle

Connections_CreateConnection(c, addr, own_addr) ==
  IF Connections_CreateConnection_ret(c, addr) = kReservedHandle
  THEN Connections_CancelPendingConnection(c, addr)
  ELSE Connections_Insert(
         Connections_CancelPendingConnection(c, addr),
         Connections_GetUnusedHandle(c),
         AddressWithType(addr, PUBLIC_DEVICE_ADDRESS),
         AddressWithType(own_addr, PUBLIC_DEVICE_ADDRESS), "BR_EDR")

Connections_HasPendingLeConnection(c, peer) ==
  peer \in c.connections_.pending_le_connections_

Connections_CanCreatePendingLeConnection(c, peer) ==
  /\ ~Connections_HasPendingLeConnection(c, peer)
  /\ c.connections_.pending_le_connections_ = {}

Connections_CreatePendingLeConnection(c, peer) ==
  IF Connections_CanCreatePendingLeConnection(c, peer)
  THEN [c EXCEPT !.connections_.pending_le_connections_ = @ \cup {peer}]
  ELSE c

Connections_CreateLeConnection_ret(c, peer) ==
  IF Connections_HasPendingLeConnection(c, peer)
  THEN Connections_GetUnusedHandle(c)
  ELSE kReservedHandle

Connections_CreateLeConnection(c, peer, own) ==
  IF Connections_CreateLeConnection_ret(c, peer) = kReservedHandle
  THEN [c EXCEPT !.connections_.pending_le_connections_ = @ \ {peer}]
  ELSE Connections_Insert(
         [c EXCEPT !.connections_.pending_le_connections_ = @ \ {peer}],
         Connections_GetUnusedHandle(c), peer, own, "LOW_ENERGY")

\* Returns whether handle was live; removes its record.
Connections_Disconnect(c, handle) ==
  [c EXCEPT !.connections_.acl_connections_ =
              [h \in (DOMAIN @) \ {handle} |-> @[h]]]

Connections_GetAddress(c, handle) ==
  c.connections_.acl_connections_[handle].address

Connections_GetOwnAddress(c, handle) ==
  c.connections_.acl_connections_[handle].own_address

Connections_GetPhyType(c, handle) ==
  c.connections_.acl_connections_[handle].phy

MinOf(S) == CHOOSE x \in S : \A y \in S : x <= y

\* The handle of the connection to this peer address with this type.
Connections_GetHandle(c, peer) ==
  LET hs == {h \in DOMAIN c.connections_.acl_connections_ :
               c.connections_.acl_connections_[h].address = peer}
  IN IF hs = {} THEN kReservedHandle ELSE MinOf(hs)

\* The handle of the connection to this peer address, whatever its type.
Connections_GetHandleOnlyAddress(c, addr) ==
  LET hs == {h \in DOMAIN c.connections_.acl_connections_ :
               c.connections_.acl_connections_[h].address.address = addr}
  IN IF hs = {} THEN kReservedHandle ELSE MinOf(hs)

Connections_IsEncrypted(c, handle) ==
  /\ Connections_HasHandle(c, handle)
  /\ c.connections_.acl_connections_[handle].encrypted

Connections_Encrypt(c, handle) ==
  IF Connections_HasHandle(c, handle)
  THEN [c EXCEPT !.connections_.acl_connections_[handle].encrypted = TRUE]
  ELSE c

NewConnections ==
  [acl_connections_ |-> <<>>, last_handle_ |-> 0,
   pending_connections_ |-> {}, pending_le_connections_ |-> {}]

(***************************************************************************)
(* SecurityManager (security_manager_): link keys, the authentication      *)
(* slot and the IO capabilities of the pairing in progress.                *)
(***************************************************************************)
NewSecurityManager ==
  [keys |-> {}, peer_address_ |-> kEmpty, current_handle_ |-> kReservedHandle,
   authenticating_ |-> FALSE,
   peer_capabilities_valid_ |-> FALSE, peer_io_capability_ |-> 0,
   host_capabilities_valid_ |-> FALSE, host_io_capability_ |-> 0]

Security_WriteKey(c, peer, key) ==
  [c EXCEPT !.security_manager_.keys =
              {k \in @ : k.peer # peer} \cup {[peer |-> peer, key |-> key]}]

Security_DeleteKey(c, peer) ==
  [c EXCEPT !.security_manager_.keys = {k \in @ : k.peer # peer}]

\* The number of keys stored for peer.
Security_ReadKey(c, peer) ==
  Cardinality({k \in c.security_manager_.keys : k.peer = peer})

Security_GetKey(c, peer) ==
  (CHOOSE k \in c.security_manager_.keys : k.peer = peer).key

\* Sets the authentication slot; a new pairing starts without capabilities.
Security_AuthenticationRequest(c, addr, handle) ==
  [c EXCEPT !.security_manager_.authenticating_ = TRUE,
            !.security_manager_.peer_address_ = addr,
            !.security_manager_.current_handle_ = handle,
            !.security_manager_.peer_capabilities_valid_ = FALSE,
            !.security_manager_.host_capabilities_valid_ = FALSE]

\* Ends the pairing; the slot keeps the peer and handle for stage 2.
Security_AuthenticationRequestFinished(c) ==
  [c EXCEPT !.security_manager_.authenticating_ = FALSE]

Security_GetAuthenticationAddress(c) == c.security_manager_.peer_address_

Security_GetAuthenticationHandle(c) == c.security_manager_.current_handle_

Security_SetPeerIoCapability(c, addr, io_capability) ==
  [c EXCEPT !.security_manager_.peer_capabilities_valid_ = TRUE,
            !.security_manager_.peer_io_capability_ = io_capability]

Security_SetLocalIoCapability(c, peer, io_capability) ==
  [c EXCEPT !.security_manager_.host_capabilities_valid_ = TRUE,
            !.security_manager_.host_io_capability_ = io_capability]

Security_InvalidateIoCapabilities(c) ==
  [c EXCEPT !.security_manager_.peer_capabilities_valid_ = FALSE,
            !.security_manager_.host_capabilities_valid_ = FALSE]

\* IoCapability: 0 DISPLAY_ONLY, 1 DISPLAY_YES_NO, 2 KEYBOARD_ONLY,
\* 3 NO_INPUT_NO_OUTPUT.  The simple-pairing selection table, by
\* <<peer, host>> capability.
Security_GetSimplePairingType(c) ==
  LET sm == c.security_manager_
      peer == sm.peer_io_capability_
      host == sm.host_io_capability_
  IN IF ~sm.host_capabilities_valid_ \/ ~sm.peer_capabilities_valid_
     THEN "INVALID"
     ELSE IF peer = 3 \/ host = 3 THEN "AUTO_CONFIRMATION"
     ELSE IF host = 2 THEN "INPUT_PIN"
     ELSE IF peer = 2 THEN "DISPLAY_PIN"
     ELSE IF peer = 1 /\ host = 1 THEN "DISPLAY_AND_CONFIRM"
     ELSE IF peer = 1 THEN "CONFIRM_Y_N"
     ELSE "AUTO_CONFIRMATION"

(***************************************************************************)
(* LeAdvertiser (advertisers_[i]): one advertising set.                    *)
(***************************************************************************)
NewAdvertiser ==
  [enabled_ |-> FALSE, initialized_ |-> FALSE,
   address_ |-> AddressWithType(kEmpty, PUBLIC_DEVICE_ADDRESS),
   peer_address_ |-> AddressWithType(kEmpty, PUBLIC_DEVICE_ADDRESS),
   filter_policy_ |-> 0, type_ |-> "ADV_IND", interval_ |-> 0,
   last_le_advertisement_ |-> 0, extended_ |-> FALSE, duration_ |-> 0]

Advertiser_Initialize(a, address, peer_address, filter_policy, type, interval) ==
  [a EXCEPT !.initialized_ = TRUE, !.address_ = address,
            !.peer_address_ = peer_address, !.filter_policy_ = filter_policy,
            !.type_ = type, !.interval_ = interval]

Advertiser_InitializeExtended(a, address_type, peer_address, filter_policy, type, interval) ==
  [a EXCEPT !.initialized_ = TRUE,
            !.address_ = AddressWithType(a.address_.address, address_type),
            !.peer_address_ = peer_address, !.filter_policy_ = filter_policy,
            !.type_ = type, !.interval_ = interval, !.extended_ = TRUE]

Advertiser_SetAddress(a, address) ==
  [a EXCEPT !.address_ = AddressWithType(address, a.address_.type)]

\* Enable: the next GetAdvertisement emits at once.
Advertiser_Enable(a) ==
  [a EXCEPT !.enabled_ = TRUE, !.last_le_advertisement_ = now - a.interval_]

Advertiser_EnableExtended(a, duration) ==
  [a EXCEPT !.enabled_ = TRUE, !.last_le_advertisement_ = now - a.interval_,
            !.duration_ = duration]

Advertiser_Disable(a) == [a EXCEPT !.enabled_ = FALSE]

Advertiser_Clear(a) == NewAdvertiser

Advertiser_IsEnabled(a) == a.enabled_

Advertiser_GetAddress(a) == a.address_

(***************************************************************************)
(* LinkLayerController.                                                    *)
(***************************************************************************)
\* The controller after construction and registration of its channels.
NewController(properties) ==
  [properties_ |-> properties,
   connections_ |-> NewConnections,
   security_manager_ |-> NewSecurityManager,
   advertisers_ |-> [i \in 0..(NumAdvertisers - 1) |-> NewAdvertiser],
   le_connect_list_ |-> <<>>,
   le_resolving_list_ |-> <<>>,
   inquiry_timer_task_id_ |-> kInvalidTaskId,
   last_inquiry_ |-> 0,
   inquiry_mode_ |-> "STANDARD",
   inquiry_scans_enabled_ |-> FALSE,
   page_scans_enabled_ |-> FALSE,
   simple_pairing_mode_enabled_ |-> FALSE,
   le_scan_enable_ |-> "NONE",
   le_scan_type_ |-> 0,
   le_connect_ |-> FALSE,
   le_peer_address_ |-> kEmpty,
   le_peer_address_type_ |-> 0,
   le_address_type_ |-> 0,
   default_link_policy_settings_ |-> 0,
   schedule_task_ |-> TRUE,
   cancel_task_ |-> TRUE,
   tasks |-> <<>>,
   next_task_id |-> 1,
   rssi |-> 0,
   le_connection_interval_min_ |-> 0,
   le_connection_interval_max_ |-> 0,
   le_connection_latency_ |-> 0,
   le_connection_supervision_timeout_ |-> 0,
   hci |-> <<>>,
   sent |-> <<>>,
   ret |-> -1,
   aborted |-> FALSE]

Packet(type, src, dst, arg) ==
  [type |-> type, src |-> src, dst |-> dst, arg |-> arg]

RECURSIVE RunCallback(_, _)

\* The harness registers the scheduler and the cancel function; an empty
\* std::function (FALSE) unregisters.
RegisterTaskScheduler(c, event_scheduler) ==
  [c EXCEPT !.schedule_task_ = event_scheduler]

RegisterTaskCancel(c, task_cancel) == [c EXCEPT !.cancel_task_ = task_cancel]

\* A faulty ScheduleTask: the callback runs at once even when a scheduler
\* has taken it.
ScheduleTask_RunsAndDelegates(c, delay_ms, callback) ==
  IF c.schedule_task_
  THEN RunCallback(Scheduler_Schedule(c, delay_ms, callback), callback)
  ELSE RunCallback(c, callback)

\* ScheduleTask: hand the callback to the registered scheduler, or run it at
\* once when none is registered.
ScheduleTask(c, delay_ms, callback) ==
  IF c.schedule_task_
  THEN Scheduler_Schedule(c, delay_ms, callback)
  ELSE RunCallback(c, callback)

\* The task id ScheduleTask returns.
ScheduleTask_ret(c) == IF c.schedule_task_ THEN c.next_task_id ELSE 0

CancelScheduledTask(c, task_id) ==
  IF c.schedule_task_ /\ c.cancel_task_
  THEN Scheduler_Cancel(c, task_id)
  ELSE c

SendLeLinkLayerPacket(c, packet) ==
  ScheduleTask(c, 50, SendCallback(packet, "LOW_ENERGY"))

\* A faulty SendLinkLayerPacket: BR/EDR packets wait 20 ms, LE packets 50 ms.
SendLinkLayerPacket_ShortDelay(c, packet) ==
  ScheduleTask(c, 20, SendCallback(packet, "BR_EDR"))

SendLinkLayerPacket(c, packet) ==
  ScheduleTask(c, 50, SendCallback(packet, "BR_EDR"))

SendCommandToRemoteByAddress(c, opcode, args, remote) ==
  LET local_address == c.properties_.address
  IN CASE opcode = "REMOTE_NAME_REQUEST" ->
            Return(SendLinkLayerPacket(
                     SendLinkLayerPacket(c,
                       Packet("READ_REMOTE_LMP_FEATURES", local_address,
                              remote, 0)),
                     Packet("REMOTE_NAME_REQUEST", local_address, remote, 0)),
                   SUCCESS)
       [] opcode = "READ_REMOTE_SUPPORTED_FEATURES" ->
            Return(SendLinkLayerPacket(c,
                     Packet("READ_REMOTE_SUPPORTED_FEATURES", local_address,
                            remote, 0)), SUCCESS)
       [] opcode = "READ_REMOTE_EXTENDED_FEATURES" ->
            Return(SendLinkLayerPacket(c,
                     Packet("READ_REMOTE_EXTENDED_FEATURES", local_address,
                            remote, args)), SUCCESS)
       [] opcode = "READ_REMOTE_VERSION_INFORMATION" ->
            Return(SendLinkLayerPacket(c,
                     Packet("READ_REMOTE_VERSION_INFORMATION", local_address,
                            remote, 0)), SUCCESS)
       [] opcode = "READ_CLOCK_OFFSET" ->
            Return(SendLinkLayerPacket(c,
                     Packet("READ_CLOCK_OFFSET", local_address, remote, 0)),
                   SUCCESS)
       [] OTHER -> Return(c, UNKNOWN_HCI_COMMAND)

SendCommandToRemoteByHandle(c, opcode, args, handle) ==
  IF ~Connections_HasHandle(c, handle)
  THEN Return(c, UNKNOWN_CONNECTION)
  ELSE SendCommandToRemoteByAddress(c, opcode, args,
         Connections_GetAddress(c, handle).address)

\* The first two bytes of an HCI ACL packet: handle, packet boundary flag and
\* broadcast flag in sixteen bits.
AclFirstTwoBytes(handle, pb, bc) ==
  (handle + pb * 4096 + bc * 16384) % 65536

\* A faulty SendAclToRemote: every ACL packet leaves on the BR/EDR phy.
SendAclToRemote_AlwaysBrEdr(c, acl_packet) ==
  LET handle == acl_packet.handle IN
  IF ~Connections_HasHandle(c, handle)
  THEN Return(c, UNKNOWN_CONNECTION)
  ELSE
    Return(
      SendLinkLayerPacket(
        ScheduleTask(c, 1, Callback("NumberOfCompletedPackets", handle, kEmpty,
                                    kNumCommandPackets)),
        Packet("ACL", Connections_GetOwnAddress(c, handle).address,
               Connections_GetAddress(c, handle).address,
               [first_two_bytes |->
                  AclFirstTwoBytes(acl_packet.handle, acl_packet.pb,
                                   acl_packet.bc),
                size |-> Len(acl_packet.payload),
                payload |-> acl_packet.payload])),
      SUCCESS)

SendAclToRemote(c, acl_packet) ==
  LET handle == acl_packet.handle IN
  IF ~Connections_HasHandle(c, handle)
  THEN Return(c, UNKNOWN_CONNECTION)
  ELSE
    LET my_address == Connections_GetOwnAddress(c, handle)
        destination == Connections_GetAddress(c, handle)
        phy == Connections_GetPhyType(c, handle)
        c1 == ScheduleTask(c, 1,
                Callback("NumberOfCompletedPackets", handle, kEmpty,
                         kNumCommandPackets))
        acl == Packet("ACL", my_address.address, destination.address,
                 [first_two_bytes |->
                    AclFirstTwoBytes(acl_packet.handle, acl_packet.pb,
                                     acl_packet.bc),
                  size |-> Len(acl_packet.payload),
                  payload |-> acl_packet.payload])
    IN Return(IF phy = "BR_EDR" THEN SendLinkLayerPacket(c1, acl)
              ELSE SendLeLinkLayerPacket(c1, acl), SUCCESS)

SubSeqFrom(s, start, end) == [i \in 1..(end - start) |-> s[start + i]]

MinInt(a, b) == IF a < b THEN a ELSE b

\* A faulty IncomingAclPacket: the number of fragments is rounded down, so
\* a last, shorter fragment is lost.
IncomingAclPacket_RoundsDown(c, incoming) ==
  LET size == c.properties_.acl_data_packet_size
      pb == (incoming.arg.first_two_bytes \div 4096) % 4
  IN [c EXCEPT !.hci = @ \o
        [k \in 1..(Len(incoming.arg.payload) \div size) |->
           [ev |-> "ACL_DATA", status |-> SUCCESS,
            handle |-> Connections_GetHandleOnlyAddress(c, incoming.src),
            addr |-> kEmpty,
            arg |-> <<IF k = 1 THEN (IF pb = 0 THEN 2 ELSE pb) ELSE 1,
                      (incoming.arg.first_two_bytes \div 16384) % 4,
                      SubSeqFrom(incoming.arg.payload, size * (k - 1),
                                 size * k)>>,
            t |-> now]]]

IncomingAclPacket(c, incoming) ==
  LET view_handle == incoming.arg.first_two_bytes % 4096
      view_pb == (incoming.arg.first_two_bytes \div 4096) % 4
      view_bc == (incoming.arg.first_two_bytes \div 16384) % 4
      local_handle == Connections_GetHandleOnlyAddress(c, incoming.src)
      payload_data == incoming.arg.payload
      acl_buffer_size == c.properties_.acl_data_packet_size
      num_packets ==
        (Len(payload_data) + acl_buffer_size - 1) \div acl_buffer_size
      first_pb == IF view_pb = 0 THEN 2 ELSE view_pb
      fragment(i) ==
        SubSeqFrom(payload_data, acl_buffer_size * i,
                   MinInt(acl_buffer_size * i + acl_buffer_size,
                          Len(payload_data)))
  IN [c EXCEPT !.hci = @ \o
        [k \in 1..num_packets |->
           [ev |-> "ACL_DATA", status |-> SUCCESS, handle |-> local_handle,
            addr |-> kEmpty,
            arg |-> <<IF k = 1 THEN first_pb ELSE 1, view_bc,
                      fragment(k - 1)>>,
            t |-> now]]]

\* GetRssi: the static counter after the call ...
GetRssi(c) ==
  [c EXCEPT !.rssi = IF (@ + 5) % 256 > 128 THEN ((@ + 5) % 256) % 7
                     ELSE (@ + 5) % 256]

\* ... and the byte it returns, -(rssi) as uint8_t.
GetRssi_ret(c) == (256 - GetRssi(c).rssi) % 256

IncomingRemoteNameRequest(c, packet) ==
  SendLinkLayerPacket(c,
    Packet("REMOTE_NAME_REQUEST_RESPONSE", packet.dst, packet.src,
           c.properties_.name))

IncomingRemoteNameRequestResponse(c, packet) ==
  send_event_(c, Event("RemoteNameRequestComplete", SUCCESS, kReservedHandle,
                       packet.src, packet.arg))

IncomingReadRemoteLmpFeatures(c, packet) ==
  SendLinkLayerPacket(c,
    Packet("READ_REMOTE_LMP_FEATURES_RESPONSE", packet.dst, packet.src,
           c.properties_.extended_features[2]))

IncomingReadRemoteLmpFeaturesResponse(c, packet) ==
  send_event_(c, Event("RemoteHostSupportedFeaturesNotification", SUCCESS,
                       kReservedHandle, packet.src, packet.arg))

IncomingReadRemoteSupportedFeatures(c, packet) ==
  SendLinkLayerPacket(c,
    Packet("READ_REMOTE_SUPPORTED_FEATURES_RESPONSE", packet.dst, packet.src,
           c.properties_.supported_features))

IncomingReadRemoteSupportedFeaturesResponse(c, packet) ==
  LET handle == Connections_GetHandleOnlyAddress(c, packet.src) IN
  IF handle = kReservedHandle THEN c
  ELSE send_event_(c, Event("ReadRemoteSupportedFeaturesComplete", SUCCESS,
                            handle, kEmpty, packet.arg))

GetExtendedFeaturesMaximumPageNumber(c) ==
  Len(c.properties_.extended_features) - 1

GetExtendedFeatures(c, page_number) ==
  IF page_number <= GetExtendedFeaturesMaximumPageNumber(c)
  THEN c.properties_.extended_features[page_number + 1]
  ELSE 0

IncomingReadRemoteExtendedFeatures(c, packet) ==
  LET page_number == packet.arg
      error_code ==
        IF page_number > GetExtendedFeaturesMaximumPageNumber(c)
        THEN INVALID_LMP_OR_LL_PARAMETERS ELSE SUCCESS
  IN SendLinkLayerPacket(c,
       Packet("READ_REMOTE_EXTENDED_FEATURES_RESPONSE", packet.dst,
              packet.src,
              [status |-> error_code, page_number |-> page_number,
               max_page_number |-> GetExtendedFeaturesMaximumPageNumber(c),
               features |-> GetExtendedFeatures(c, page_number)]))

IncomingReadRemoteExtendedFeaturesResponse(c, packet) ==
  LET handle == Connections_GetHandleOnlyAddress(c, packet.src) IN
  IF handle = kReservedHandle THEN c
  ELSE send_event_(c, Event("ReadRemoteExtendedFeaturesComplete",
                            packet.arg.status, handle, kEmpty,
                            <<packet.arg.page_number,
                              packet.arg.max_page_number,
                              packet.arg.features>>))

\* Answers a version request with a supported-features response.
IncomingReadRemoteVersion(c, packet) ==
  SendLinkLayerPacket(c,
    Packet("READ_REMOTE_SUPPORTED_FEATURES_RESPONSE", packet.dst, packet.src,
           c.properties_.supported_features))

IncomingReadRemoteVersionResponse(c, packet) ==
  LET handle == Connections_GetHandleOnlyAddress(c, packet.src) IN
  IF handle = kReservedHandle THEN c
  ELSE send_event_(c, Event("ReadRemoteVersionInformationComplete", SUCCESS,
                            handle, kEmpty, packet.arg))

IncomingReadClockOffset(c, packet) ==
  SendLinkLayerPacket(c,
    Packet("READ_CLOCK_OFFSET_RESPONSE", packet.dst, packet.src,
           c.properties_.clock_offset))

IncomingReadClockOffsetResponse(c, packet) ==
  LET handle == Connections_GetHandleOnlyAddress(c, packet.src) IN
  IF handle = kReservedHandle THEN c
  ELSE send_event_(c, Event("ReadClockOffsetComplete", SUCCESS, handle,
                            kEmpty, packet.arg))

\* A faulty IncomingDisconnectPacket: the peer's host is told at once that
\* the local host terminated the connection.
IncomingDisconnectPacket_LocalHost(c, incoming) ==
  LET handle == Connections_GetHandleOnlyAddress(c, incoming.src)
  IN IF handle = kReservedHandle THEN c
     ELSE send_event_(Connections_Disconnect(c, handle),
                      Event("DisconnectionComplete", SUCCESS, handle, kEmpty,
                            CONNECTION_TERMINATED_BY_LOCAL_HOST))

\* A faulty IncomingDisconnectPacket: the connection record stays until the
\* cleanup.
IncomingDisconnectPacket_KeepsRecord(c, incoming) ==
  LET handle == Connections_GetHandleOnlyAddress(c, incoming.src)
  IN IF handle = kReservedHandle THEN c
     ELSE ScheduleTask(c, 20, Callback("DisconnectCleanup", handle, kEmpty,
                                       incoming.arg))

IncomingDisconnectPacket(c, incoming) ==
  LET peer == incoming.src
      handle == Connections_GetHandleOnlyAddress(c, peer)
      reason == incoming.arg
  IN IF handle = kReservedHandle THEN c
     ELSE IF ~Connections_HasHandle(c, handle) THEN Abort(c)
     ELSE ScheduleTask(Connections_Disconnect(c, handle), 20,
                       Callback("DisconnectCleanup", handle, kEmpty, reason))

IncomingEncryptConnection(c, incoming) ==
  LET peer == incoming.src
      handle == Connections_GetHandleOnlyAddress(c, peer)
  IN IF handle = kReservedHandle THEN c
     ELSE
       LET c1 == send_event_(c, Event("EncryptionChange", SUCCESS, handle,
                                      kEmpty, 1))
       IN IF Security_ReadKey(c1, peer) = 0 THEN c1
          ELSE SendLinkLayerPacket(c1,
                 Packet("ENCRYPT_CONNECTION_RESPONSE", c.properties_.address,
                        peer, Security_GetKey(c1, peer)))

IncomingEncryptConnectionResponse(c, incoming) ==
  LET handle == Connections_GetHandleOnlyAddress(c, incoming.src) IN
  IF handle = kReservedHandle THEN c
  ELSE send_event_(c, Event("EncryptionChange", SUCCESS, handle, kEmpty, 1))

IncomingInquiryPacket(c, incoming) ==
  LET peer == incoming.src
      basic == [page_scan_repetition_mode |->
                  c.properties_.page_scan_repetition_mode,
                class_of_device |-> c.properties_.class_of_device,
                clock_offset |-> c.properties_.clock_offset]
  IN CASE incoming.arg = "STANDARD" ->
            SendLinkLayerPacket(c,
              Packet("INQUIRY_RESPONSE", c.properties_.address, peer,
                     [inquiry_type |-> "STANDARD", basic |-> basic,
                      rssi |-> 0]))
       [] incoming.arg = "RSSI" ->
            SendLinkLayerPacket(GetRssi(c),
              Packet("INQUIRY_RESPONSE", c.properties_.address, peer,
                     [inquiry_type |-> "RSSI", basic |-> basic,
                      rssi |-> GetRssi_ret(c)]))
       [] incoming.arg = "EXTENDED" ->
            SendLinkLayerPacket(GetRssi(c),
              Packet("INQUIRY_RESPONSE", c.properties_.address, peer,
                     [inquiry_type |-> "EXTENDED", basic |-> basic,
                      rssi |-> GetRssi_ret(c)]))
       [] OTHER -> c

IncomingInquiryResponsePacket(c, incoming) ==
  CASE incoming.arg.inquiry_type = "STANDARD" ->
         send_event_(c, Event("InquiryResult", SUCCESS, kReservedHandle,
                              incoming.src, incoming.arg.basic))
    [] incoming.arg.inquiry_type = "RSSI" ->
         send_event_(c, Event("InquiryResultWithRssi", SUCCESS,
                              kReservedHandle, incoming.src,
                              <<incoming.arg.basic, incoming.arg.rssi>>))
    [] incoming.arg.inquiry_type = "EXTENDED" ->
         send_event_(c, Event("ExtendedInquiryResult", SUCCESS,
                              kReservedHandle, incoming.src,
                              <<incoming.arg.basic, incoming.arg.rssi>>))
    [] OTHER -> c

WriteSimplePairingMode(c, enabled) ==
  IF ~enabled THEN Abort(c)
  ELSE [c EXCEPT !.simple_pairing_mode_enabled_ = enabled]

StartSimplePairing(c, address) ==
  send_event_(c, Event("IoCapabilityRequest", SUCCESS, kReservedHandle,
                       address, 0))

IncomingIoCapabilityRequestPacket(c, incoming) ==
  IF ~c.simple_pairing_mode_enabled_ THEN c
  ELSE
    LET peer == incoming.src
        io_capability == incoming.arg
        handle == Connections_GetHandle(c,
                    AddressWithType(peer, PUBLIC_DEVICE_ADDRESS))
    IN IF handle = kReservedHandle THEN c
       ELSE StartSimplePairing(
              send_event_(
                Security_SetPeerIoCapability(
                  Security_AuthenticationRequest(c, peer, handle),
                  peer, io_capability),
                Event("IoCapabilityResponse", SUCCESS, kReservedHandle, peer,
                      io_capability)),
              peer)

IncomingIoCapabilityResponsePacket(c, incoming) ==
  LET peer == incoming.src
      io_capability == incoming.arg
      c1 == send_event_(Security_SetPeerIoCapability(c, peer, io_capability),
                        Event("IoCapabilityResponse", SUCCESS,
                              kReservedHandle, peer, io_capability))
      pairing_type == Security_GetSimplePairingType(c1)
  IN IF pairing_type # "INVALID"
     THEN ScheduleTask(c1, 5, Callback("AuthenticateRemoteStage1",
                                       kReservedHandle, peer, pairing_type))
     ELSE c1

IncomingIoCapabilityNegativeResponsePacket(c, incoming) ==
  IF Security_GetAuthenticationAddress(c) # incoming.src THEN Abort(c)
  ELSE Security_InvalidateIoCapabilities(c)

LeConnectListContainsDevice(c, addr, addr_type) ==
  \E i \in 1..Len(c.le_connect_list_) :
    c.le_connect_list_[i] = <<addr, addr_type>>

\* A faulty LeConnectListAddDevice: the pair is appended without the search.
LeConnectListAddDevice_Appends(c, addr, addr_type) ==
  [c EXCEPT !.le_connect_list_ = Append(@, <<addr, addr_type>>)]

LeConnectListClear(c) == [c EXCEPT !.le_connect_list_ = <<>>]

RECURSIVE LeConnectListRemoveFrom(_, _, _)
\* The loop of LeConnectListRemoveDevice over le_connect_list_[i..]: after an
\* erase the index still advances.
LeConnectListRemoveFrom(list, erase_tuple, i) ==
  IF i > Len(list) THEN list
  ELSE IF list[i] = erase_tuple
       THEN LeConnectListRemoveFrom(RemoveAt(list, i), erase_tuple, i + 1)
       ELSE LeConnectListRemoveFrom(list, erase_tuple, i + 1)

LeConnectListRemoveDevice(c, addr, addr_type) ==
  [c EXCEPT !.le_connect_list_ =
     LeConnectListRemoveFrom(@, <<addr, addr_type>>, 1)]

LeConnectListAddDevice(c, addr, addr_type) ==
  IF \E i \in 1..Len(c.le_connect_list_) :
       c.le_connect_list_[i] = <<addr, addr_type>>
  THEN c
  ELSE [c EXCEPT !.le_connect_list_ = Append(@, <<addr, addr_type>>)]

\* The loop runs over le_connect_list_ and writes le_resolving_list_[i]. An
\* index past the end of the resolving list is undefined behaviour: the
\* outcomes are a crash or a write that leaves the list as it was. The
\* result is the set of possible outcomes.
LeResolvingListAddDevice(c, addr, addr_type, peerIrk, localIrk) ==
  LET new_tuple == <<addr, addr_type, peerIrk, localIrk>>
      found == {i \in 1..Len(c.le_connect_list_) :
                  /\ c.le_connect_list_[i][1] = addr
                  /\ c.le_connect_list_[i][2] = addr_type}
  IN IF found = {}
     THEN {[c EXCEPT !.le_resolving_list_ = Append(@, new_tuple)]}
     ELSE IF MinOf(found) <= Len(c.le_resolving_list_)
     THEN {[c EXCEPT !.le_resolving_list_[MinOf(found)] = new_tuple]}
     ELSE {Abort(c), c}

RECURSIVE LeResolvingListRemoveFrom(_, _, _, _)
\* The loop of LeResolvingListRemoveDevice over le_connect_list_[i..]:
\* erasing at an index past the end of the resolving list is undefined
\* behaviour (a crash, or nothing visible).
LeResolvingListRemoveFrom(c, addr, addr_type, i) ==
  IF i > Len(c.le_connect_list_) THEN {c}
  ELSE IF c.le_connect_list_[i][1] = addr /\ c.le_connect_list_[i][2] = addr_type
  THEN IF i <= Len(c.le_resolving_list_)
       THEN LeResolvingListRemoveFrom(
              [c EXCEPT !.le_resolving_list_ = RemoveAt(@, i)],
              addr, addr_type, i + 1)
       ELSE {Abort(c)} \cup LeResolvingListRemoveFrom(c, addr, addr_type, i + 1)
  ELSE LeResolvingListRemoveFrom(c, addr, addr_type, i + 1)

\* The set of possible outcomes.
LeResolvingListRemoveDevice(c, addr, addr_type) ==
  LeResolvingListRemoveFrom(c, addr, addr_type, 1)

LeResolvingListContainsDevice(c, addr, addr_type) ==
  \E i \in 1..Len(c.le_connect_list_) :
    /\ c.le_connect_list_[i][1] = addr
    /\ c.le_connect_list_[i][2] = addr_type

\* The byte an extended advertising report carries for an advertisement type.
ExtendedEventType(adv_type) ==
  CASE adv_type = "ADV_IND" -> 19
    [] adv_type = "ADV_DIRECT_IND" -> 21
    [] adv_type = "ADV_SCAN_IND" -> 18
    [] adv_type = "ADV_NONCONN_IND" -> 16
    [] OTHER -> 27

\* A faulty connect step: an armed connect answers an advertisement of any
\* type from the armed peer.
LeAdvertisementConnect_AnyType(c, incoming) ==
  LET address == incoming.src
      address_type == incoming.arg.address_type
  IN IF \/ /\ c.le_connect_
            /\ c.le_peer_address_ = address
            /\ c.le_peer_address_type_ = address_type
        \/ LeConnectListContainsDevice(c, address, address_type)
     THEN SendLeLinkLayerPacket(
            [Connections_CreatePendingLeConnection(c,
               AddressWithType(address, address_type))
             EXCEPT !.le_connect_ = FALSE, !.le_scan_enable_ = "NONE"],
            Packet("LE_CONNECT", c.properties_.address, incoming.src,
                   [interval_min |-> c.le_connection_interval_min_,
                    interval_max |-> c.le_connection_interval_max_,
                    latency |-> c.le_connection_latency_,
                    supervision_timeout |->
                      c.le_connection_supervision_timeout_,
                    address_type |-> c.le_address_type_]))
     ELSE c

\* The connect step of IncomingLeAdvertisementPacket.
LeAdvertisementConnect(c, incoming) ==
  LET address == incoming.src
      address_type == incoming.arg.address_type
      adv_type == incoming.arg.advertisement_type
  IN IF \/ /\ c.le_connect_
            /\ c.le_peer_address_ = address
            /\ c.le_peer_address_type_ = address_type
            /\ adv_type \in {"ADV_IND", "ADV_DIRECT_IND"}
        \/ LeConnectListContainsDevice(c, address, address_type)
     THEN
       LET c1 == Connections_CreatePendingLeConnection(c,
                   AddressWithType(address, address_type))
       IN IF c.le_address_type_ \notin
               {PUBLIC_DEVICE_ADDRESS, RANDOM_DEVICE_ADDRESS}
          THEN Abort(c1)
          ELSE
            LET own_address ==
                  IF c.le_address_type_ = PUBLIC_DEVICE_ADDRESS
                  THEN c.properties_.address ELSE c.properties_.le_address
            IN SendLeLinkLayerPacket(
                 [c1 EXCEPT !.le_connect_ = FALSE, !.le_scan_enable_ = "NONE"],
                 Packet("LE_CONNECT", own_address, incoming.src,
                        [interval_min |-> c.le_connection_interval_min_,
                         interval_max |-> c.le_connection_interval_max_,
                         latency |-> c.le_connection_latency_,
                         supervision_timeout |->
                           c.le_connection_supervision_timeout_,
                         address_type |-> c.le_address_type_]))
     ELSE c

IncomingLeAdvertisementPacket(c, incoming) ==
  LET address == incoming.src
      address_type == incoming.arg.address_type
      adv_type == incoming.arg.advertisement_type
      ad == incoming.arg.data
      c1 == IF c.le_scan_enable_ = "LE_SET_SCAN_ENABLE"
            THEN send_event_(GetRssi(c),
                   Event("LeMetaEvent:AdvertisingReport", SUCCESS,
                         kReservedHandle, address,
                         [event_type |-> adv_type,
                          address_type |-> address_type, data |-> ad,
                          rssi |-> GetRssi_ret(c)]))
            ELSE c
      c2 == IF c1.le_scan_enable_ = "LE_SET_EXTENDED_SCAN_ENABLE"
            THEN send_event_(GetRssi(c1),
                   Event("LeMetaEvent:ExtendedAdvertisingReport", SUCCESS,
                         kReservedHandle, address,
                         [event_type |-> ExtendedEventType(adv_type),
                          address_type |-> address_type, data |-> ad,
                          rssi |-> GetRssi_ret(c1)]))
            ELSE c1
      c3 == IF c2.le_scan_enable_ # "NONE" /\ c2.le_scan_type_ = 1
            THEN SendLeLinkLayerPacket(c2,
                   Packet("LE_SCAN", c.properties_.le_address, address, 0))
            ELSE c2
  IN IF /\ c1.le_scan_enable_ = "LE_SET_EXTENDED_SCAN_ENABLE"
        /\ adv_type = "SCAN_RESPONSE"
     THEN c1
     ELSE LeAdvertisementConnect(c3, incoming)

HandleLeConnection(c, address, own_address, role, connection_interval, connection_latency, supervision_timeout) ==
  LET handle == Connections_CreateLeConnection_ret(c, address)
      c1 == Connections_CreateLeConnection(c, address, own_address)
  IN IF handle = kReservedHandle THEN c1
     ELSE send_event_(c1,
            Event("LeMetaEvent:LeConnectionComplete", SUCCESS, handle,
                  address.address,
                  [role |-> role, peer_address_type |-> address.type,
                   interval |-> connection_interval,
                   latency |-> connection_latency,
                   supervision_timeout |-> supervision_timeout]))

\* The advertisers whose address is the destination; the last one is used.
MatchedAdvertisers(c, destination) ==
  {i \in DOMAIN c.advertisers_ :
     Advertiser_GetAddress(c.advertisers_[i]).address = destination}

MaxOf(S) == CHOOSE x \in S : \A y \in S : x >= y

IncomingLeConnectPacket(c, incoming) ==
  LET connect == incoming.arg
      connection_interval ==
        (connect.interval_max + connect.interval_min) \div 2
      peer == AddressWithType(incoming.src, connect.address_type)
  IN IF ~Connections_CanCreatePendingLeConnection(c, peer) THEN c
     ELSE
       LET c1 == Connections_CreatePendingLeConnection(c, peer)
           matched == MatchedAdvertisers(c1, incoming.dst)
       IN IF matched = {} THEN c1
          ELSE
            LET my_address ==
                  Advertiser_GetAddress(c1.advertisers_[MaxOf(matched)])
            IN SendLeLinkLayerPacket(
                 HandleLeConnection(c1, peer, my_address, "SLAVE",
                                    connection_interval, connect.latency,
                                    connect.supervision_timeout),
                 Packet("LE_CONNECT_COMPLETE", incoming.dst, incoming.src,
                        [interval |-> connection_interval,
                         latency |-> connect.latency,
                         supervision_timeout |-> connect.supervision_timeout,
                         address_type |-> my_address.type]))

\* A faulty IncomingLeConnectCompletePacket: the initiator reports itself
\* as SLAVE.
IncomingLeConnectCompletePacket_AsSlave(c, incoming) ==
  HandleLeConnection(c,
    AddressWithType(incoming.src, incoming.arg.address_type),
    AddressWithType(incoming.dst, c.le_address_type_), "SLAVE",
    incoming.arg.interval, incoming.arg.latency,
    incoming.arg.supervision_timeout)

IncomingLeConnectCompletePacket(c, incoming) ==
  HandleLeConnection(c,
    AddressWithType(incoming.src, incoming.arg.address_type),
    AddressWithType(incoming.dst, c.le_address_type_), "MASTER",
    incoming.arg.interval, incoming.arg.latency,
    incoming.arg.supervision_timeout)

IncomingLeEncryptConnection(c, incoming) ==
  LET handle == Connections_GetHandleOnlyAddress(c, incoming.src)
  IN IF handle = kReservedHandle THEN c
     ELSE send_event_(c, Event("LeLongTermKeyRequest", SUCCESS, handle,
                               kEmpty, incoming.arg))

\* A faulty IncomingLeEncryptConnectionResponse: a key is taken for a
\* rejection as soon as its first byte is zero.
IncomingLeEncryptConnectionResponse_FirstByte(c, incoming) ==
  LET handle == Connections_GetHandleOnlyAddress(c, incoming.src)
      status == IF incoming.arg.ltk[1] = 0
                THEN AUTHENTICATION_FAILURE ELSE SUCCESS
  IN IF handle = kReservedHandle THEN c
     ELSE IF Connections_IsEncrypted(c, handle)
     THEN send_event_(c, Event("EncryptionKeyRefreshComplete", status, handle,
                               kEmpty, 0))
     ELSE send_event_(Connections_Encrypt(c, handle),
                      Event("EncryptionChange", status, handle, kEmpty, 1))

IncomingLeEncryptConnectionResponse(c, incoming) ==
  LET handle == Connections_GetHandleOnlyAddress(c, incoming.src)
      \* Zero LTK is a rejection
      status == IF incoming.arg.ltk = ZeroKey
                THEN AUTHENTICATION_FAILURE ELSE SUCCESS
  IN IF handle = kReservedHandle THEN c
     ELSE IF Connections_IsEncrypted(c, handle)
     THEN send_event_(c, Event("EncryptionKeyRefreshComplete", status, handle,
                               kEmpty, 0))
     ELSE send_event_(Connections_Encrypt(c, handle),
                      Event("EncryptionChange", status, handle, kEmpty, 1))

\* LeAdvertiser::GetScanResponse: whether this advertiser answers the scan.
Advertiser_GetScanResponse_ret(a, destination, source) ==
  /\ a.enabled_
  /\ destination = a.address_.address
  /\ a.filter_policy_ \in {0, 2}

Advertiser_GetScanResponse(a, destination, source) ==
  Packet("LE_SCAN_RESPONSE", a.address_.address, source,
         [address_type |-> a.address_.type,
          advertisement_type |-> "SCAN_RESPONSE", data |-> <<>>])

RECURSIVE LeScanFrom(_, _, _)
\* The loop of IncomingLeScanPacket over advertisers_[i..].
LeScanFrom(c, incoming, i) ==
  IF i >= NumAdvertisers THEN c
  ELSE LeScanFrom(
         IF Advertiser_GetScanResponse_ret(c.advertisers_[i], incoming.dst,
                                           incoming.src)
         THEN SendLeLinkLayerPacket(c,
                Advertiser_GetScanResponse(c.advertisers_[i], incoming.dst,
                                           incoming.src))
         ELSE c,
         incoming, i + 1)

IncomingLeScanPacket(c, incoming) == LeScanFrom(c, incoming, 0)

IncomingLeScanResponsePacket(c, incoming) ==
  LET adv_type == incoming.arg.advertisement_type
      address_type == incoming.arg.address_type
      ad == incoming.arg.data
      c1 == IF c.le_scan_enable_ = "LE_SET_SCAN_ENABLE"
            THEN send_event_(GetRssi(c),
                   Event("LeMetaEvent:AdvertisingReport", SUCCESS,
                         kReservedHandle, incoming.src,
                         [event_type |-> "SCAN_RESPONSE",
                          address_type |-> address_type, data |-> ad,
                          rssi |-> GetRssi_ret(c)]))
            ELSE c
  IN IF c.le_scan_enable_ = "LE_SET_SCAN_ENABLE" /\ adv_type # "SCAN_RESPONSE"
     THEN c
     ELSE IF c1.le_scan_enable_ = "LE_SET_EXTENDED_SCAN_ENABLE"
     THEN send_event_(GetRssi(c1),
            Event("LeMetaEvent:ExtendedAdvertisingReport", SUCCESS,
                  kReservedHandle, incoming.src,
                  [event_type |-> 26, address_type |-> address_type,
                   data |-> ad, rssi |-> GetRssi_ret(c1)]))
     ELSE c1

IncomingPagePacket(c, incoming) ==
  send_event_(
    Connections_CreatePendingConnection(c, incoming.src,
                                        c.properties_.authentication_enable # 0),
    Event("ConnectionRequest", SUCCESS, kReservedHandle, incoming.src,
          incoming.arg))

IncomingPageRejectPacket(c, incoming) ==
  send_event_(c, Event("ConnectionComplete", incoming.arg, 3839, incoming.src,
                       0))

\* A faulty IncomingPageResponsePacket: the response is dropped.
IncomingPageResponsePacket_Drops(c, incoming) == c

IncomingPageResponsePacket(c, incoming) ==
  LET peer == incoming.src
      awaiting_authentication ==
        Connections_AuthenticatePendingConnection_ret(c)
      c1 == Connections_AuthenticatePendingConnection(c)
      handle == Connections_CreateConnection_ret(c1, peer)
      c2 == Connections_CreateConnection(c1, peer, incoming.dst)
  IN IF handle = kReservedHandle THEN c2
     ELSE
       LET c3 == send_event_(c2, Event("ConnectionComplete", SUCCESS, handle,
                                       incoming.src, 0))
       IN IF awaiting_authentication
          THEN ScheduleTask(c3, 5, Callback("HandleAuthenticationRequest",
                                            handle, peer, 0))
          ELSE c3

\* LeAdvertiser::GetAdvertisement: whether a beacon is due at this time.
Advertiser_GetAdvertisement_ret(a) ==
  a.enabled_ /\ now - a.last_le_advertisement_ >= a.interval_

Advertiser_GetAdvertisement(a) ==
  IF Advertiser_GetAdvertisement_ret(a)
  THEN [a EXCEPT !.last_le_advertisement_ = now]
  ELSE a

Advertiser_Beacon(a) ==
  Packet("LE_ADVERTISEMENT", a.address_.address, a.peer_address_.address,
         [address_type |-> a.address_.type, advertisement_type |-> a.type_,
          data |-> <<>>])

RECURSIVE LeAdvertisingFrom(_, _)
\* The loop of LeAdvertising over advertisers_[i..].
LeAdvertisingFrom(c, i) ==
  IF i >= NumAdvertisers THEN c
  ELSE LeAdvertisingFrom(
         IF Advertiser_GetAdvertisement_ret(c.advertisers_[i])
         THEN SendLeLinkLayerPacket(
                [c EXCEPT !.advertisers_[i] = Advertiser_GetAdvertisement(@)],
                Advertiser_Beacon(c.advertisers_[i]))
         ELSE c,
         i + 1)

LeAdvertising(c) == LeAdvertisingFrom(c, 0)

(***************************************************************************)
(* Simple pairing and authentication.                                      *)
(***************************************************************************)
\* A lambda that only sends a prebuilt HCI event.
EventCallback(ev, status, handle, addr, arg) ==
  Callback("send_event_", handle, addr,
           [ev |-> ev, status |-> status, arg |-> arg])

AuthenticateRemoteStage1(c, peer, pairing_type) ==
  IF Security_GetAuthenticationAddress(c) # peer THEN Abort(c)
  ELSE IF pairing_type \in {"AUTO_CONFIRMATION", "CONFIRM_Y_N", "DISPLAY_PIN",
                            "DISPLAY_AND_CONFIRM"}
  THEN send_event_(c, Event("UserConfirmationRequest", SUCCESS,
                            kReservedHandle, peer, 123456))
  ELSE IF pairing_type = "INPUT_PIN"
  THEN send_event_(c, Event("UserPasskeyRequest", SUCCESS, kReservedHandle,
                            peer, 0))
  ELSE Abort(c)

AuthenticateRemoteStage2(c, peer) ==
  LET handle == Security_GetAuthenticationHandle(c)
  IN IF Security_GetAuthenticationAddress(c) # peer THEN Abort(c)
     ELSE send_event_(c, Event("AuthenticationComplete", SUCCESS, handle,
                               kEmpty, 0))

LinkKeyRequestReply(c, peer, key) ==
  Return(
    ScheduleTask(
      Security_AuthenticationRequestFinished(Security_WriteKey(c, peer, key)),
      5, Callback("AuthenticateRemoteStage2", kReservedHandle, peer, 0)),
    SUCCESS)

LinkKeyRequestNegativeReply(c, address) ==
  LET c1 == Security_DeleteKey(c, address)
      handle == Connections_GetHandleOnlyAddress(c1, address)
  IN IF handle = kReservedHandle THEN Return(c1, UNKNOWN_CONNECTION)
     ELSE Return(
            ScheduleTask(Security_AuthenticationRequest(c1, address, handle),
                         5, Callback("StartSimplePairing", kReservedHandle,
                                     address, 0)),
            SUCCESS)

IoCapabilityRequestReply(c, peer, io_capability) ==
  LET c1 == Security_SetLocalIoCapability(c, peer, io_capability)
      pairing_type == Security_GetSimplePairingType(c1)
  IN IF pairing_type # "INVALID"
     THEN Return(
            SendLinkLayerPacket(
              ScheduleTask(c1, 5, Callback("AuthenticateRemoteStage1",
                                           kReservedHandle, peer,
                                           pairing_type)),
              Packet("IO_CAPABILITY_RESPONSE", c.properties_.address, peer,
                     io_capability)),
            SUCCESS)
     ELSE Return(
            SendLinkLayerPacket(c1,
              Packet("IO_CAPABILITY_REQUEST", c.properties_.address, peer,
                     io_capability)),
            SUCCESS)

IoCapabilityRequestNegativeReply(c, peer, reason) ==
  IF Security_GetAuthenticationAddress(c) # peer
  THEN Return(c, AUTHENTICATION_FAILURE)
  ELSE Return(
         SendLinkLayerPacket(Security_InvalidateIoCapabilities(c),
           Packet("IO_CAPABILITY_NEGATIVE_RESPONSE", c.properties_.address,
                  peer, reason)),
         SUCCESS)

\* A faulty UserConfirmationRequestReply: stage 2 runs with the first
\* events, 5 ms after the reply.
UserConfirmationRequestReply_EarlyStage2(c, peer) ==
  IF Security_GetAuthenticationAddress(c) # peer
  THEN Return(c, AUTHENTICATION_FAILURE)
  ELSE
    LET c1 == Security_AuthenticationRequestFinished(
                Security_WriteKey(c, peer, kPlaceholderKey))
        c2 == ScheduleTask(c1, 5, Callback("AuthenticateRemoteStage2",
                                           kReservedHandle, peer, 0))
        c3 == ScheduleTask(c2, 5,
                EventCallback("SimplePairingComplete", SUCCESS,
                              kReservedHandle, peer, 0))
    IN Return(ScheduleTask(c3, 5,
                EventCallback("LinkKeyNotification", SUCCESS, kReservedHandle,
                              peer, kPlaceholderKey)),
              SUCCESS)

UserConfirmationRequestReply(c, peer) ==
  IF Security_GetAuthenticationAddress(c) # peer
  THEN Return(c, AUTHENTICATION_FAILURE)
  ELSE
    LET c1 == Security_AuthenticationRequestFinished(
                Security_WriteKey(c, peer, kPlaceholderKey))
        c2 == ScheduleTask(c1, 5,
                EventCallback("SimplePairingComplete", SUCCESS,
                              kReservedHandle, peer, 0))
        c3 == ScheduleTask(c2, 5,
                EventCallback("LinkKeyNotification", SUCCESS, kReservedHandle,
                              peer, kPlaceholderKey))
    IN Return(ScheduleTask(c3, 15, Callback("AuthenticateRemoteStage2",
                                            kReservedHandle, peer, 0)),
              SUCCESS)

UserConfirmationRequestNegativeReply(c, peer) ==
  IF Security_GetAuthenticationAddress(c) # peer
  THEN Return(c, AUTHENTICATION_FAILURE)
  ELSE Return(ScheduleTask(c, 5,
                EventCallback("SimplePairingComplete", AUTHENTICATION_FAILURE,
                              kReservedHandle, peer, 0)),
              SUCCESS)

UserPasskeyRequestReply(c, peer, numeric_value) ==
  IF Security_GetAuthenticationAddress(c) # peer
  THEN Return(c, AUTHENTICATION_FAILURE)
  ELSE Return(c, SUCCESS)

UserPasskeyRequestNegativeReply(c, peer) ==
  IF Security_GetAuthenticationAddress(c) # peer
  THEN Return(c, AUTHENTICATION_FAILURE)
  ELSE Return(c, SUCCESS)

RemoteOobDataRequestReply(c, peer) ==
  IF Security_GetAuthenticationAddress(c) # peer
  THEN Return(c, AUTHENTICATION_FAILURE)
  ELSE Return(c, SUCCESS)

RemoteOobDataRequestNegativeReply(c, peer) ==
  IF Security_GetAuthenticationAddress(c) # peer
  THEN Return(c, AUTHENTICATION_FAILURE)
  ELSE Return(c, SUCCESS)

HandleAuthenticationRequest(c, address, handle) ==
  IF c.simple_pairing_mode_enabled_
  THEN send_event_(Security_AuthenticationRequest(c, address, handle),
                   Event("LinkKeyRequest", SUCCESS, kReservedHandle, address,
                         0))
  ELSE send_event_(c, Event("AuthenticationComplete", AUTHENTICATION_FAILURE,
                            handle, kEmpty, 0))

AuthenticationRequested(c, handle) ==
  IF ~Connections_HasHandle(c, handle) THEN Return(c, UNKNOWN_CONNECTION)
  ELSE Return(
         ScheduleTask(c, 5,
           Callback("HandleAuthenticationRequest", handle,
                    Connections_GetAddress(c, handle).address, 0)),
         SUCCESS)

HandleSetConnectionEncryption(c, peer, handle, encryption_enable) ==
  IF Connections_IsEncrypted(c, handle) /\ encryption_enable # 0
  THEN send_event_(c, Event("EncryptionChange", SUCCESS, handle, kEmpty,
                            encryption_enable))
  ELSE IF Security_ReadKey(c, peer) = 0 THEN c
  ELSE SendLinkLayerPacket(c,
         Packet("ENCRYPT_CONNECTION", c.properties_.address, peer,
                Security_GetKey(c, peer)))

\* A faulty SetConnectionEncryption: the key is looked up before the
\* encryption mode is examined.
SetConnectionEncryption_KeyFirst(c, handle, encryption_enable) ==
  IF ~Connections_HasHandle(c, handle) THEN Return(c, UNKNOWN_CONNECTION)
  ELSE IF Security_ReadKey(c, Connections_GetAddress(c, handle).address) = 0
  THEN Return(c, PIN_OR_KEY_MISSING)
  ELSE IF Connections_IsEncrypted(c, handle) /\ encryption_enable = 0
  THEN Return(c, ENCRYPTION_MODE_NOT_ACCEPTABLE)
  ELSE Return(
         ScheduleTask(c, 5,
           Callback("HandleSetConnectionEncryption", handle,
                    Connections_GetAddress(c, handle).address,
                    encryption_enable)),
         SUCCESS)

SetConnectionEncryption(c, handle, encryption_enable) ==
  IF ~Connections_HasHandle(c, handle) THEN Return(c, UNKNOWN_CONNECTION)
  ELSE IF Connections_IsEncrypted(c, handle) /\ encryption_enable = 0
  THEN Return(c, ENCRYPTION_MODE_NOT_ACCEPTABLE)
  ELSE IF Security_ReadKey(c, Connections_GetAddress(c, handle).address) = 0
  THEN Return(c, PIN_OR_KEY_MISSING)
  ELSE Return(
         ScheduleTask(c, 5,
           Callback("HandleSetConnectionEncryption", handle,
                    Connections_GetAddress(c, handle).address,
                    encryption_enable)),
         SUCCESS)

(***************************************************************************)
(* BR/EDR connection establishment and teardown.                           *)
(***************************************************************************)
AcceptConnectionRequest(c, addr, try_role_switch) ==
  IF ~Connections_HasPendingConnection(c, addr)
  THEN Return(c, UNKNOWN_CONNECTION)
  ELSE Return(ScheduleTask(c, 200, Callback("MakeSlaveConnection",
                                            kReservedHandle, addr,
                                            try_role_switch)),
              SUCCESS)

\* A faulty MakeSlaveConnection: reports the connection without testing the
\* handle for the reserved one.
MakeSlaveConnection_NoHandleCheck(c, addr, try_role_switch) ==
  send_event_(
    Connections_CreateConnection(
      SendLinkLayerPacket(c, Packet("PAGE_RESPONSE", c.properties_.address,
                                    addr, try_role_switch)),
      addr, c.properties_.address),
    Event("ConnectionComplete", SUCCESS,
          Connections_CreateConnection_ret(c, addr), addr, 0))

MakeSlaveConnection(c, addr, try_role_switch) ==
  LET c1 == SendLinkLayerPacket(c,
              Packet("PAGE_RESPONSE", c.properties_.address, addr,
                     try_role_switch))
      handle == Connections_CreateConnection_ret(c1, addr)
      c2 == Connections_CreateConnection(c1, addr, c.properties_.address)
  IN IF handle = kReservedHandle THEN c2
     ELSE send_event_(c2, Event("ConnectionComplete", SUCCESS, handle, addr,
                                0))

RejectConnectionRequest(c, addr, reason) ==
  IF ~Connections_HasPendingConnection(c, addr)
  THEN Return(c, UNKNOWN_CONNECTION)
  ELSE Return(ScheduleTask(c, 200, Callback("RejectSlaveConnection",
                                            kReservedHandle, addr, reason)),
              SUCCESS)

\* A faulty RejectSlaveConnection: the host is told the peer's page failed
\* with a fixed status instead of the reason it gave.
RejectSlaveConnection_FixedStatus(c, addr, reason) ==
  send_event_(
    SendLinkLayerPacket(c, Packet("PAGE_REJECT", c.properties_.address, addr,
                                  reason)),
    Event("ConnectionComplete", CONNECTION_TERMINATED_BY_LOCAL_HOST, 3839,
          addr, 0))

RejectSlaveConnection(c, addr, reason) ==
  send_event_(
    SendLinkLayerPacket(c, Packet("PAGE_REJECT", c.properties_.address, addr,
                                  reason)),
    Event("ConnectionComplete", reason, 3839, addr, 0))

\* A faulty CreateConnection: pages without looking at the result of
\* CreatePendingConnection.
CreateConnection_IgnoresBusy(c, addr, allow_role_switch) ==
  Return(
    SendLinkLayerPacket(
      Connections_CreatePendingConnection(c, addr,
        c.properties_.authentication_enable = 1),
      Packet("PAGE", c.properties_.address, addr,
             c.properties_.class_of_device)),
    SUCCESS)

CreateConnection(c, addr, allow_role_switch) ==
  IF ~Connections_CanCreatePendingConnection(c, addr)
  THEN Return(c, CONTROLLER_BUSY)
  ELSE Return(
         SendLinkLayerPacket(
           Connections_CreatePendingConnection(c, addr,
             c.properties_.authentication_enable = 1),
           Packet("PAGE", c.properties_.address, addr,
                  c.properties_.class_of_device)),
         SUCCESS)

CreateConnectionCancel(c, addr) ==
  IF ~Connections_HasPendingConnection(c, addr)
  THEN Return(c, UNKNOWN_CONNECTION)
  ELSE Return(Connections_CancelPendingConnection(c, addr), SUCCESS)

\* A faulty Disconnect: leaves the connection record in the table.
Disconnect_KeepsRecord(c, handle, reason) ==
  IF ~Connections_HasHandle(c, handle) THEN Return(c, UNKNOWN_CONNECTION)
  ELSE Return(
         ScheduleTask(
           SendLinkLayerPacket(c,
             Packet("DISCONNECT", c.properties_.address,
                    Connections_GetAddress(c, handle).address, reason)),
           20, Callback("DisconnectCleanup", handle, kEmpty,
                        CONNECTION_TERMINATED_BY_LOCAL_HOST)),
         SUCCESS)

Disconnect(c, handle, reason) ==
  IF ~Connections_HasHandle(c, handle) THEN Return(c, UNKNOWN_CONNECTION)
  ELSE
    LET remote == Connections_GetAddress(c, handle)
        c1 == SendLinkLayerPacket(c,
                Packet("DISCONNECT", c.properties_.address, remote.address,
                       reason))
    IN Return(
         ScheduleTask(Connections_Disconnect(c1, handle), 20,
                      Callback("DisconnectCleanup", handle, kEmpty,
                               CONNECTION_TERMINATED_BY_LOCAL_HOST)),
         SUCCESS)

DisconnectCleanup(c, handle, reason) ==
  send_event_(c, Event("DisconnectionComplete", SUCCESS, handle, kEmpty,
                       reason))

ChangeConnectionPacketType(c, handle, types) ==
  IF ~Connections_HasHandle(c, handle) THEN Return(c, UNKNOWN_CONNECTION)
  ELSE Return(ScheduleTask(c, 20,
                EventCallback("ConnectionPacketTypeChanged", SUCCESS, handle,
                              kEmpty, types)),
              SUCCESS)

\* A faulty WriteLinkPolicySettings: accepts any handle.
WriteLinkPolicySettings_AnyHandle(c, handle, settings) == Return(c, SUCCESS)

WriteLinkPolicySettings(c, handle, settings) ==
  IF ~Connections_HasHandle(c, handle) THEN Return(c, UNKNOWN_CONNECTION)
  ELSE Return(c, SUCCESS)

WriteLinkSupervisionTimeout(c, handle, timeout) ==
  IF ~Connections_HasHandle(c, handle) THEN Return(c, UNKNOWN_CONNECTION)
  ELSE Return(c, SUCCESS)

(***************************************************************************)
(* LE commands.                                                            *)
(***************************************************************************)
SetLeExtendedAddress(c, set, address) ==
  Return([c EXCEPT !.advertisers_[set] = Advertiser_SetAddress(@, address)],
         SUCCESS)

\* A faulty LeConnectionUpdateComplete: the supervision timeout is not
\* compared with the latency and the interval.
LeConnectionUpdateComplete_NoTimeoutBound(c, connection_update) ==
  LET handle == connection_update.handle
      interval_min == connection_update.interval_min
      interval_max == connection_update.interval_max
      latency == connection_update.latency
      supervision_timeout == connection_update.supervision_timeout
      status ==
        IF \/ interval_min < 6 \/ interval_max > 3200
           \/ interval_min > interval_max
           \/ latency > 499 \/ supervision_timeout < 10
           \/ supervision_timeout > 3200
        THEN INVALID_HCI_COMMAND_PARAMETERS
        ELSE IF ~Connections_HasHandle(c, handle) THEN UNKNOWN_CONNECTION
        ELSE SUCCESS
  IN send_event_(c, Event("LeMetaEvent:LeConnectionUpdateComplete", status,
                          handle, kEmpty,
                          [interval |-> (interval_min + interval_max) \div 2,
                           latency |-> latency,
                           supervision_timeout |-> supervision_timeout]))

LeConnectionUpdateComplete(c, connection_update) ==
  LET handle == connection_update.handle
      interval_min == connection_update.interval_min
      interval_max == connection_update.interval_max
      latency == connection_update.latency
      supervision_timeout == connection_update.supervision_timeout
      status ==
        IF \/ interval_min < 6 \/ interval_max > 3200
           \/ interval_min > interval_max \/ interval_max < interval_min
           \/ latency > 499 \/ supervision_timeout < 10
           \/ supervision_timeout > 3200
           \/ supervision_timeout <=
                ((((1 + latency) * interval_max * 10) \div 4) \div 10)
        THEN INVALID_HCI_COMMAND_PARAMETERS
        ELSE IF ~Connections_HasHandle(c, handle) THEN UNKNOWN_CONNECTION
        ELSE SUCCESS
      interval == ((interval_min + interval_max) \div 2) % 65536
  IN send_event_(c, Event("LeMetaEvent:LeConnectionUpdateComplete", status,
                          handle, kEmpty,
                          [interval |-> interval, latency |-> latency,
                           supervision_timeout |-> supervision_timeout]))

LeConnectionUpdate(c, connection_update) ==
  IF ~Connections_HasHandle(c, connection_update.handle)
  THEN Return(c, UNKNOWN_CONNECTION)
  ELSE Return(ScheduleTask(c, 25,
                Callback("LeConnectionUpdateComplete",
                         connection_update.handle, kEmpty,
                         connection_update)),
              SUCCESS)

HandleLeEnableEncryption(c, handle, keys) ==
  IF ~Connections_HasHandle(c, handle) THEN c
  ELSE SendLeLinkLayerPacket(c,
         Packet("LE_ENCRYPT_CONNECTION",
                Connections_GetOwnAddress(c, handle).address,
                Connections_GetAddress(c, handle).address, keys))

LeEnableEncryption(c, handle, rand, ediv, ltk) ==
  IF ~Connections_HasHandle(c, handle) THEN Return(c, UNKNOWN_CONNECTION)
  ELSE Return(ScheduleTask(c, 5,
                Callback("HandleLeEnableEncryption", handle, kEmpty,
                         [rand |-> rand, ediv |-> ediv, ltk |-> ltk])),
              SUCCESS)

LeLongTermKeyRequestReply(c, handle, ltk) ==
  IF ~Connections_HasHandle(c, handle) THEN Return(c, UNKNOWN_CONNECTION)
  ELSE
    LET c1 == IF Connections_IsEncrypted(c, handle)
              THEN send_event_(c, Event("EncryptionKeyRefreshComplete",
                                        SUCCESS, handle, kEmpty, 0))
              ELSE send_event_(Connections_Encrypt(c, handle),
                               Event("EncryptionChange", SUCCESS, handle,
                                     kEmpty, 1))
    IN Return(
         SendLeLinkLayerPacket(c1,
           Packet("LE_ENCRYPT_CONNECTION_RESPONSE",
                  Connections_GetOwnAddress(c, handle).address,
                  Connections_GetAddress(c, handle).address,
                  [rand |-> 0, ediv |-> 0, ltk |-> ltk])),
         SUCCESS)

LeLongTermKeyRequestNegativeReply(c, handle) ==
  IF ~Connections_HasHandle(c, handle) THEN Return(c, UNKNOWN_CONNECTION)
  ELSE Return(
         SendLeLinkLayerPacket(c,
           Packet("LE_ENCRYPT_CONNECTION_RESPONSE",
                  Connections_GetOwnAddress(c, handle).address,
                  Connections_GetAddress(c, handle).address,
                  [rand |-> 0, ediv |-> 0, ltk |-> ZeroKey])),
         SUCCESS)

\* (max + min) * 0.625 / 2 truncated to whole milliseconds.
LeAdvertisingIntervalMs(c) ==
  ((c.properties_.le_advertising_interval_max +
    c.properties_.le_advertising_interval_min) * 5) \div 16

\* A faulty validation: only the random device address type is refused with
\* an unset LE address.
SetLeAdvertisingEnable_DeviceTypeOnly(c, le_advertising_enable) ==
  IF le_advertising_enable = 0
  THEN Return([c EXCEPT !.advertisers_[0] = Advertiser_Disable(@)], SUCCESS)
  ELSE
    LET own_type == c.properties_.le_advertising_own_address_type
        random == own_type = RANDOM_DEVICE_ADDRESS
        own_address == IF random THEN c.properties_.le_address
                       ELSE c.properties_.address
        interval == LeAdvertisingIntervalMs(c)
    IN IF /\ random
          /\ c.properties_.le_address \in {kEmpty, AddrUnsetLe}
       THEN Return(c, INVALID_HCI_COMMAND_PARAMETERS)
       ELSE IF interval < 20
       THEN Return(c, INVALID_HCI_COMMAND_PARAMETERS)
       ELSE Return(
              [c EXCEPT !.advertisers_[0] =
                 Advertiser_Enable(
                   Advertiser_Initialize(@,
                     AddressWithType(own_address, own_type),
                     AddressWithType(
                       c.properties_.le_advertising_peer_address,
                       c.properties_.le_advertising_peer_address_type),
                     c.properties_.le_advertising_filter_policy,
                     c.properties_.le_advertisement_type, interval))],
              SUCCESS)

SetLeAdvertisingEnable(c, le_advertising_enable) ==
  IF le_advertising_enable = 0
  THEN Return([c EXCEPT !.advertisers_[0] = Advertiser_Disable(@)], SUCCESS)
  ELSE
    LET own_type == c.properties_.le_advertising_own_address_type
        random == own_type \in {RANDOM_DEVICE_ADDRESS, RANDOM_IDENTITY_ADDRESS}
        own_address == IF random THEN c.properties_.le_address
                       ELSE c.properties_.address
        interval == LeAdvertisingIntervalMs(c)
    IN IF /\ random
          /\ \/ AddressToString(c.properties_.le_address) =
                  kUnsetLeAddressString
             \/ c.properties_.le_address = kEmpty
       THEN Return(c, INVALID_HCI_COMMAND_PARAMETERS)
       ELSE IF interval < 20
       THEN Return(c, INVALID_HCI_COMMAND_PARAMETERS)
       ELSE Return(
              [c EXCEPT !.advertisers_[0] =
                 Advertiser_Enable(
                   Advertiser_Initialize(@,
                     AddressWithType(own_address, own_type),
                     AddressWithType(
                       c.properties_.le_advertising_peer_address,
                       c.properties_.le_advertising_peer_address_type),
                     c.properties_.le_advertising_filter_policy,
                     c.properties_.le_advertisement_type, interval))],
              SUCCESS)

LeDisableAdvertisingSets(c) ==
  [c EXCEPT !.advertisers_ = [i \in DOMAIN @ |-> Advertiser_Disable(@[i])]]

RECURSIVE EnableSetsFrom(_, _, _, _, _)
\* The second loop of SetLeExtendedAdvertisingEnable over enabled_sets[i..];
\* ub is what indexing one past the advertiser array does.
EnableSetsFrom(c, enable, enabled_sets, i, ub) ==
  IF i > Len(enabled_sets) THEN c
  ELSE
    LET handle == enabled_sets[i].advertising_handle_
    IN IF handle \notin DOMAIN c.advertisers_
       THEN IF ub = "crash" THEN Abort(c)
            ELSE EnableSetsFrom(c, enable, enabled_sets, i + 1, ub)
       ELSE EnableSetsFrom(
              [c EXCEPT !.advertisers_[handle] =
                 IF enable
                 THEN Advertiser_EnableExtended(@,
                        10 * enabled_sets[i].duration_)
                 ELSE Advertiser_Disable(@)],
              enable, enabled_sets, i + 1, ub)

SetLeExtendedAdvertisingEnable(c, enable, enabled_sets, ub) ==
  IF \E i \in 1..Len(enabled_sets) :
       enabled_sets[i].advertising_handle_ > NumAdvertisers
  THEN Return(c, INVALID_HCI_COMMAND_PARAMETERS)
  ELSE Return(EnableSetsFrom(c, enable, enabled_sets, 1, ub), SUCCESS)

LeRemoveAdvertisingSet(c, set) ==
  IF set >= NumAdvertisers
  THEN Return(c, INVALID_HCI_COMMAND_PARAMETERS)
  ELSE Return([c EXCEPT !.advertisers_[set] = Advertiser_Disable(@)], SUCCESS)

\* A faulty LeClearAdvertisingSets: the sets in front of the first enabled
\* one are cleared before the command is refused.
LeClearAdvertisingSets_ClearsInFront(c) ==
  IF \E i \in DOMAIN c.advertisers_ : Advertiser_IsEnabled(c.advertisers_[i])
  THEN Return([c EXCEPT !.advertisers_ =
                 [i \in DOMAIN @ |->
                    IF \A j \in DOMAIN @ :
                         j <= i => ~Advertiser_IsEnabled(@[j])
                    THEN Advertiser_Clear(@[i]) ELSE @[i]]],
              COMMAND_DISALLOWED)
  ELSE Return([c EXCEPT !.advertisers_ =
                 [i \in DOMAIN @ |-> Advertiser_Clear(@[i])]], SUCCESS)

LeClearAdvertisingSets(c) ==
  IF \E i \in DOMAIN c.advertisers_ : Advertiser_IsEnabled(c.advertisers_[i])
  THEN Return(c, COMMAND_DISALLOWED)
  ELSE Return([c EXCEPT !.advertisers_ =
                 [i \in DOMAIN @ |-> Advertiser_Clear(@[i])]], SUCCESS)

(***************************************************************************)
(* Reset, inquiry and the periodic tick.                                   *)
(***************************************************************************)
\* A faulty Reset: the advertising sets are left as they are.
Reset_KeepsAdvertising(c) ==
  LET c1 == IF c.inquiry_timer_task_id_ # kInvalidTaskId
            THEN [CancelScheduledTask(c, c.inquiry_timer_task_id_)
                    EXCEPT !.inquiry_timer_task_id_ = kInvalidTaskId]
            ELSE c
  IN [c1 EXCEPT !.last_inquiry_ = now, !.le_scan_enable_ = "NONE",
                !.le_connect_ = FALSE]

Reset(c) ==
  LET c1 == IF c.inquiry_timer_task_id_ # kInvalidTaskId
            THEN [CancelScheduledTask(c, c.inquiry_timer_task_id_)
                    EXCEPT !.inquiry_timer_task_id_ = kInvalidTaskId]
            ELSE c
  IN [LeDisableAdvertisingSets(
        [c1 EXCEPT !.last_inquiry_ = now, !.le_scan_enable_ = "NONE"])
        EXCEPT !.le_connect_ = FALSE]

\* The callback runs before the returned id is stored.
StartInquiry(c, timeout) ==
  [ScheduleTask(c, timeout, Callback("InquiryTimeout", kReservedHandle,
                                     kEmpty, 0))
     EXCEPT !.inquiry_timer_task_id_ = ScheduleTask_ret(c)]

InquiryCancel(c) ==
  IF c.inquiry_timer_task_id_ = kInvalidTaskId THEN Abort(c)
  ELSE [CancelScheduledTask(c, c.inquiry_timer_task_id_)
          EXCEPT !.inquiry_timer_task_id_ = kInvalidTaskId]

InquiryTimeout(c) ==
  IF c.inquiry_timer_task_id_ # kInvalidTaskId
  THEN send_event_([c EXCEPT !.inquiry_timer_task_id_ = kInvalidTaskId],
                   Event("InquiryComplete", SUCCESS, kReservedHandle, kEmpty,
                         0))
  ELSE c

SetInquiryMode(c, mode) == [c EXCEPT !.inquiry_mode_ = mode]

\* A faulty Inquiry: the time of the emission is not recorded.
Inquiry_KeepsLastInquiry(c) ==
  IF now - c.last_inquiry_ < 2000 THEN c
  ELSE SendLinkLayerPacket(c,
         Packet("INQUIRY", c.properties_.address, kEmpty, c.inquiry_mode_))

Inquiry(c) ==
  IF now - c.last_inquiry_ < 2000 THEN c
  ELSE [SendLinkLayerPacket(c,
          Packet("INQUIRY", c.properties_.address, kEmpty, c.inquiry_mode_))
          EXCEPT !.last_inquiry_ = now]

\* The host arms an LE connection: SetLeConnect(true) with the peer's
\* address and address type.
ArmLeConnect(c, peer_address, peer_address_type) ==
  [c EXCEPT !.le_connect_ = TRUE, !.le_peer_address_ = peer_address,
            !.le_peer_address_type_ = peer_address_type]

\* The host turns LE scanning on or off (opcode NONE).
SetLeScanEnable(c, opcode) == [c EXCEPT !.le_scan_enable_ = opcode]

\* The host selects passive (0) or active (1) LE scanning.
SetLeScanType(c, type) == [c EXCEPT !.le_scan_type_ = type]

SetInquiryScanEnable(c, enable) == [c EXCEPT !.inquiry_scans_enabled_ = enable]

SetPageScanEnable(c, enable) == [c EXCEPT !.page_scans_enabled_ = enable]

TimerTick(c) ==
  LeAdvertising(IF c.inquiry_timer_task_id_ # kInvalidTaskId
                THEN Inquiry(c) ELSE c)

\* The body of a scheduled lambda, by the name of what it calls.
RunCallback(c, cb) ==
  CASE cb.name = "send_to_remote_" -> send_to_remote_(c, cb.pkt, cb.arg)
    [] cb.name = "send_event_" ->
         send_event_(c, Event(cb.arg.ev, cb.arg.status, cb.handle, cb.addr,
                              cb.arg.arg))
    [] cb.name = "NumberOfCompletedPackets" ->
         send_event_(c, Event("NumberOfCompletedPackets", SUCCESS, cb.handle,
                              kEmpty, cb.arg))
    [] cb.name = "AuthenticateRemoteStage1" ->
         AuthenticateRemoteStage1(c, cb.addr, cb.arg)
    [] cb.name = "AuthenticateRemoteStage2" ->
         AuthenticateRemoteStage2(c, cb.addr)
    [] cb.name = "StartSimplePairing" -> StartSimplePairing(c, cb.addr)
    [] cb.name = "HandleAuthenticationRequest" ->
         HandleAuthenticationRequest(c, cb.addr, cb.handle)
    [] cb.name = "HandleSetConnectionEncryption" ->
         HandleSetConnectionEncryption(c, cb.addr, cb.handle, cb.arg)
    [] cb.name = "MakeSlaveConnection" ->
         MakeSlaveConnection(c, cb.addr, cb.arg)
    [] cb.name = "RejectSlaveConnection" ->
         RejectSlaveConnection(c, cb.addr, cb.arg)
    [] cb.name = "DisconnectCleanup" ->
         DisconnectCleanup(c, cb.handle, cb.arg)
    [] cb.name = "LeConnectionUpdateComplete" ->
         LeConnectionUpdateComplete(c, cb.arg)
    [] cb.name = "HandleLeEnableEncryption" ->
         HandleLeEnableEncryption(c, cb.handle, cb.arg)
    [] cb.name = "InquiryTimeout" -> InquiryTimeout(c)
    [] OTHER -> c

(***************************************************************************)
(* The incoming-packet dispatcher.                                         *)
(***************************************************************************)
\* A faulty address filter: matches the address of an advertiser that is not
\* enabled.
AddressMatches_AnyAdvertiser(c, destination_address) ==
  \/ destination_address = kEmpty
  \/ destination_address = c.properties_.address
  \/ destination_address = c.properties_.le_address
  \/ \E i \in DOMAIN c.advertisers_ :
       Advertiser_GetAddress(c.advertisers_[i]).address = destination_address

\* address_matches of IncomingPacket.
AddressMatches(c, destination_address) ==
  \/ destination_address = kEmpty
  \/ destination_address = c.properties_.address
  \/ destination_address = c.properties_.le_address
  \/ \E i \in DOMAIN c.advertisers_ :
       /\ Advertiser_IsEnabled(c.advertisers_[i])
       /\ Advertiser_GetAddress(c.advertisers_[i]).address =
            destination_address

Dispatch(c, incoming) ==
  LET type == incoming.type
  IN CASE type = "ACL" -> IncomingAclPacket(c, incoming)
       [] type = "DISCONNECT" -> IncomingDisconnectPacket(c, incoming)
       [] type = "ENCRYPT_CONNECTION" -> IncomingEncryptConnection(c, incoming)
       [] type = "ENCRYPT_CONNECTION_RESPONSE" ->
            IncomingEncryptConnectionResponse(c, incoming)
       [] type = "INQUIRY" ->
            IF c.inquiry_scans_enabled_ THEN IncomingInquiryPacket(c, incoming)
            ELSE c
       [] type = "INQUIRY_RESPONSE" ->
            IncomingInquiryResponsePacket(c, incoming)
       [] type = "IO_CAPABILITY_REQUEST" ->
            IncomingIoCapabilityRequestPacket(c, incoming)
       [] type = "IO_CAPABILITY_RESPONSE" ->
            IncomingIoCapabilityResponsePacket(c, incoming)
       [] type = "IO_CAPABILITY_NEGATIVE_RESPONSE" ->
            IncomingIoCapabilityNegativeResponsePacket(c, incoming)
       [] type = "LE_ADVERTISEMENT" ->
            IF c.le_scan_enable_ # "NONE" \/ c.le_connect_
            THEN IncomingLeAdvertisementPacket(c, incoming) ELSE c
       [] type = "LE_CONNECT" -> IncomingLeConnectPacket(c, incoming)
       [] type = "LE_CONNECT_COMPLETE" ->
            IncomingLeConnectCompletePacket(c, incoming)
       [] type = "LE_ENCRYPT_CONNECTION" ->
            IncomingLeEncryptConnection(c, incoming)
       [] type = "LE_ENCRYPT_CONNECTION_RESPONSE" ->
            IncomingLeEncryptConnectionResponse(c, incoming)
       [] type = "LE_SCAN" -> IncomingLeScanPacket(c, incoming)
       [] type = "LE_SCAN_RESPONSE" ->
            IF c.le_scan_enable_ # "NONE" /\ c.le_scan_type_ = 1
            THEN IncomingLeScanResponsePacket(c, incoming) ELSE c
       [] type = "PAGE" ->
            IF c.page_scans_enabled_ THEN IncomingPagePacket(c, incoming)
            ELSE c
       [] type = "PAGE_RESPONSE" -> IncomingPageResponsePacket(c, incoming)
       [] type = "PAGE_REJECT" -> IncomingPageRejectPacket(c, incoming)
       [] type = "REMOTE_NAME_REQUEST" -> IncomingRemoteNameRequest(c, incoming)
       [] type = "REMOTE_NAME_REQUEST_RESPONSE" ->
            IncomingRemoteNameRequestResponse(c, incoming)
       [] type = "READ_REMOTE_SUPPORTED_FEATURES" ->
            IncomingReadRemoteSupportedFeatures(c, incoming)
       [] type = "READ_REMOTE_SUPPORTED_FEATURES_RESPONSE" ->
            IncomingReadRemoteSupportedFeaturesResponse(c, incoming)
       [] type = "READ_REMOTE_LMP_FEATURES" ->
            IncomingReadRemoteLmpFeatures(c, incoming)
       [] type = "READ_REMOTE_LMP_FEATURES_RESPONSE" ->
            IncomingReadRemoteLmpFeaturesResponse(c, incoming)
       [] type = "READ_REMOTE_EXTENDED_FEATURES" ->
            IncomingReadRemoteExtendedFeatures(c, incoming)
       [] type = "READ_REMOTE_EXTENDED_FEATURES_RESPONSE" ->
            IncomingReadRemoteExtendedFeaturesResponse(c, incoming)
       [] type = "READ_REMOTE_VERSION_INFORMATION" ->
            IncomingReadRemoteVersion(c, incoming)
       [] type = "READ_REMOTE_VERSION_INFORMATION_RESPONSE" ->
            IncomingReadRemoteVersionResponse(c, incoming)
       [] type = "READ_CLOCK_OFFSET" -> IncomingReadClockOffset(c, incoming)
       [] type = "READ_CLOCK_OFFSET_RESPONSE" ->
            IncomingReadClockOffsetResponse(c, incoming)
       [] OTHER -> c

\* A faulty IncomingPacket: the mode-gated packet types reach their handlers
\* whatever the scan modes are.
IncomingPacket_Ungated(c, incoming) ==
  IF ~AddressMatches(c, incoming.dst) THEN c
  ELSE CASE incoming.type = "INQUIRY" -> IncomingInquiryPacket(c, incoming)
         [] incoming.type = "PAGE" -> IncomingPagePacket(c, incoming)
         [] incoming.type = "LE_ADVERTISEMENT" ->
              IncomingLeAdvertisementPacket(c, incoming)
         [] incoming.type = "LE_SCAN_RESPONSE" ->
              IncomingLeScanResponsePacket(c, incoming)
         [] OTHER -> Dispatch(c, incoming)

IncomingPacket(c, incoming) ==
  IF ~AddressMatches(c, incoming.dst) THEN c ELSE Dispatch(c, incoming)

(***************************************************************************)
(* The system: one controller under test, its host and its peers.          *)
(***************************************************************************)
Dev == "A"

\* The device properties the controller is constructed with.
Properties(own_address_type, le_address, interval_min, interval_max) ==
  [address |-> AddrA, le_address |-> le_address,
   acl_data_packet_size |-> 2, authentication_enable |-> 0,
   name |-> "A", class_of_device |-> 1, clock_offset |-> 2,
   page_scan_repetition_mode |-> 0, supported_features |-> 255,
   extended_features |-> <<255, 1>>,
   le_advertising_interval_min |-> interval_min,
   le_advertising_interval_max |-> interval_max,
   le_advertising_own_address_type |-> own_address_type,
   le_advertising_peer_address |-> kEmpty,
   le_advertising_peer_address_type |-> PUBLIC_DEVICE_ADDRESS,
   le_advertising_filter_policy |-> 0,
   le_advertisement_type |-> "ADV_IND"]

DefaultProperties == Properties(PUBLIC_DEVICE_ADDRESS, AddrLeA, 32, 32)

Peers == {AddrP1, AddrP2}

\* Handles 0 .. NumHandles - 1 can be live; NumHandles never is.
Handles == 0..NumHandles

NoCall ==
  [op |-> "Init", handle |-> kReservedHandle, addr |-> kEmpty, arg |-> 0,
   pkt |-> NoPacket, pre |-> NewController(DefaultProperties)]

\* Whether every task due by now has run.
SchedulerIdle(c) == \A k \in 1..Len(c.tasks) : c.tasks[k].due > now

\* A host command or an arriving packet: the controller becomes c2.
Step(op, handle, addr, arg, pkt, c2) ==
  /\ ~ctl[Dev].aborted
  /\ inputs > 0
  /\ ctl' = [ctl EXCEPT ![Dev] = c2]
  /\ call' = [op |-> op, handle |-> handle, addr |-> addr, arg |-> arg,
              pkt |-> pkt, pre |-> ctl[Dev]]
  /\ inputs' = inputs - 1
  /\ UNCHANGED now

\* The scheduler runs the next task that is due.
RunTask ==
  LET c == ctl[Dev]
      i == Scheduler_Next(c)
  IN /\ ~c.aborted
     /\ i # 0
     /\ c.tasks[i].due <= now
     /\ ctl' = [ctl EXCEPT ![Dev] =
                  RunCallback([c EXCEPT !.tasks = RemoveAt(@, i)],
                              c.tasks[i].cb)]
     /\ call' = [op |-> c.tasks[i].cb.name, handle |-> c.tasks[i].cb.handle,
                 addr |-> c.tasks[i].cb.addr, arg |-> 0,
                 pkt |-> c.tasks[i].cb.pkt, pre |-> c]
     /\ UNCHANGED <<now, inputs, log>>

\* Time passes up to the next task that is due.
AdvanceTime ==
  LET c == ctl[Dev]
  IN /\ ~c.aborted
     /\ c.tasks # <<>>
     /\ SchedulerIdle(c)
     /\ c.tasks[Scheduler_Next(c)].due <= MaxTime
     /\ now' = c.tasks[Scheduler_Next(c)].due
     /\ call' = [NoCall EXCEPT !.op = "AdvanceTime", !.pre = c]
     /\ UNCHANGED <<ctl, inputs, log>>

\* The log keeps the commands whose time of call later properties refer to.
Logged(op, handle, ret) ==
  Append(log, [op |-> op, handle |-> handle, ret |-> ret, arg |-> 0,
               t |-> now])

\* A log entry for a command without a handle: arg is its parameter or its
\* observed effect.
LoggedArg(op, arg) ==
  Append(log, [op |-> op, handle |-> kReservedHandle, ret |-> SUCCESS,
               arg |-> arg, t |-> now])

(***************************************************************************)
(* Host commands and arriving packets as actions.                          *)
(***************************************************************************)
Cmd(op, handle, addr, c2) ==
  Step(op, handle, addr, 0, NoPacket, c2) /\ UNCHANGED log

\* A command whose parameter is a number.
CmdArg(op, arg, c2) ==
  Step(op, kReservedHandle, kEmpty, arg, NoPacket, c2) /\ UNCHANGED log

Receive(pkt) ==
  /\ Step("IncomingPacket", kReservedHandle, pkt.src, 0, pkt,
          IncomingPacket(ctl[Dev], pkt))
  /\ UNCHANGED log

DoCreateConnection ==
  \E addr \in Peers :
    Cmd("CreateConnection", kReservedHandle, addr,
        CreateConnection(ctl[Dev], addr, 1))

DoAcceptConnectionRequest ==
  \E addr \in Peers :
    Cmd("AcceptConnectionRequest", kReservedHandle, addr,
        AcceptConnectionRequest(ctl[Dev], addr, 0))

DoSetPageScanEnable ==
  Cmd("SetPageScanEnable", kReservedHandle, kEmpty,
      SetPageScanEnable(ctl[Dev], TRUE))

DoDisconnect ==
  \E handle \in Handles :
    /\ Step("Disconnect", handle, kEmpty, 0, NoPacket,
            Disconnect(ctl[Dev], handle, REMOTE_USER_TERMINATED_CONNECTION))
    /\ log' = Logged("Disconnect", handle,
                     Disconnect(ctl[Dev], handle,
                                REMOTE_USER_TERMINATED_CONNECTION).ret)

DoSendCommandToRemoteByHandle ==
  \E handle \in Handles :
    Cmd("SendCommandToRemoteByHandle", handle, kEmpty,
        SendCommandToRemoteByHandle(ctl[Dev], "READ_CLOCK_OFFSET", 0, handle))

DoSendAclToRemote ==
  \E handle \in Handles :
    Cmd("SendAclToRemote", handle, kEmpty,
        SendAclToRemote(ctl[Dev], [handle |-> handle, pb |-> 2, bc |-> 0,
                                   payload |-> <<7, 8, 9>>]))

DoAuthenticationRequested ==
  \E handle \in Handles :
    Cmd("AuthenticationRequested", handle, kEmpty,
        AuthenticationRequested(ctl[Dev], handle))

DoSetConnectionEncryption ==
  \E handle \in Handles :
    Cmd("SetConnectionEncryption", handle, kEmpty,
        SetConnectionEncryption(ctl[Dev], handle, 1))

DoChangeConnectionPacketType ==
  \E handle \in Handles :
    Cmd("ChangeConnectionPacketType", handle, kEmpty,
        ChangeConnectionPacketType(ctl[Dev], handle, 52248))

DoWriteLinkPolicySettings ==
  \E handle \in Handles :
    Cmd("WriteLinkPolicySettings", handle, kEmpty,
        WriteLinkPolicySettings(ctl[Dev], handle, 7))

DoWriteLinkSupervisionTimeout ==
  \E handle \in Handles :
    Cmd("WriteLinkSupervisionTimeout", handle, kEmpty,
        WriteLinkSupervisionTimeout(ctl[Dev], handle, 8000))

DoLeConnectionUpdate ==
  \E handle \in Handles :
    Cmd("LeConnectionUpdate", handle, kEmpty,
        LeConnectionUpdate(ctl[Dev],
          [handle |-> handle, interval_min |-> 6, interval_max |-> 8,
           latency |-> 0, supervision_timeout |-> 100]))

DoLeEnableEncryption ==
  \E handle \in Handles :
    Cmd("LeEnableEncryption", handle, kEmpty,
        LeEnableEncryption(ctl[Dev], handle, 0, 0, OtherKey))

DoLeLongTermKeyRequestReply ==
  \E handle \in Handles :
    Cmd("LeLongTermKeyRequestReply", handle, kEmpty,
        LeLongTermKeyRequestReply(ctl[Dev], handle, OtherKey))

DoLeLongTermKeyRequestNegativeReply ==
  \E handle \in Handles :
    Cmd("LeLongTermKeyRequestNegativeReply", handle, kEmpty,
        LeLongTermKeyRequestNegativeReply(ctl[Dev], handle))

DoSetLeAdvertisingEnable ==
  \E enable \in {0, 1} :
    CmdArg("SetLeAdvertisingEnable", enable,
           SetLeAdvertisingEnable(ctl[Dev], enable))

PagePackets == {Packet("PAGE", p, AddrA, 7) : p \in Peers}

PageResponsePackets == {Packet("PAGE_RESPONSE", p, AddrA, 1) : p \in Peers}

DisconnectPackets ==
  {Packet("DISCONNECT", p, AddrA, REMOTE_USER_TERMINATED_CONNECTION) :
     p \in Peers}

LeConnectPackets ==
  {Packet("LE_CONNECT", p, AddrA,
          [interval_min |-> 6, interval_max |-> 9, latency |-> 0,
           supervision_timeout |-> 100,
           address_type |-> PUBLIC_DEVICE_ADDRESS]) : p \in Peers}

ReceiveConnection ==
  \E pkt \in PagePackets \cup PageResponsePackets \cup DisconnectPackets :
    Receive(pkt)

LeConnectCompletePackets ==
  {Packet("LE_CONNECT_COMPLETE", p, AddrA,
          [interval |-> 7, latency |-> 0, supervision_timeout |-> 100,
           address_type |-> PUBLIC_DEVICE_ADDRESS]) : p \in Peers}

ReceiveLeConnect == \E pkt \in LeConnectPackets : Receive(pkt)

ReceiveLeConnectComplete == \E pkt \in LeConnectCompletePackets : Receive(pkt)

\* inputs counts the host commands and packets still to come.
InitWith(properties, budget) ==
  /\ ctl = [d \in {Dev} |-> NewController(properties)]
  /\ now = 0
  /\ call = NoCall
  /\ inputs = budget
  /\ log = <<>>

(***************************************************************************)
(* Spec: connection establishment and teardown.                            *)
(***************************************************************************)
Init == InitWith(DefaultProperties, MaxInputs)

Next ==
  \/ DoCreateConnection
  \/ DoAcceptConnectionRequest
  \/ DoSetPageScanEnable
  \/ DoDisconnect
  \/ DoSetLeAdvertisingEnable
  \/ ReceiveConnection
  \/ ReceiveLeConnect
  \/ ReceiveLeConnectComplete
  \/ RunTask
  \/ AdvanceTime

Spec == Init /\ [][Next]_vars

\* The events a step appended to the host channel.
NewEvents(pre, post) == SubSeq(post.hci, Len(pre.hci) + 1, Len(post.hci))

\* The tasks a step appended to the scheduler.
NewTasks(pre, post) == SubSeq(post.tasks, Len(pre.tasks) + 1, Len(post.tasks))

Live(c) == DOMAIN c.connections_.acl_connections_

EventsFor(c, ev, handle) ==
  {k \in DOMAIN c.hci : c.hci[k].ev = ev /\ c.hci[k].handle = handle}

\* C10: CreateConnection(addr) returns CONTROLLER_BUSY, pages nobody and
\* leaves the controller as it was when a pending connection to addr is
\* outstanding or the pending table is full; otherwise it returns SUCCESS,
\* the pending connection to addr exists and exactly one Page to addr is
\* handed to the link layer.
C10_CreateConnectionBusy ==
  [][call'.op = "CreateConnection" =>
       LET pre == ctl[Dev]
           post == ctl'[Dev]
           addr == call'.addr
           busy == post.ret = CONTROLLER_BUSY
       IN /\ Connections_HasPendingConnection(pre, addr) => busy
          /\ pre.connections_.pending_connections_ # {} => busy
          /\ busy => post = [pre EXCEPT !.ret = CONTROLLER_BUSY]
          /\ ~busy =>
               /\ post.ret = SUCCESS
               /\ pre.connections_.pending_connections_ = {}
               /\ Connections_HasPendingConnection(post, addr)
               /\ Len(NewTasks(pre, post)) = 1
               /\ NewTasks(pre, post)[1].due = now + 50
               /\ NewTasks(pre, post)[1].cb =
                    SendCallback(Packet("PAGE", AddrA, addr,
                                        pre.properties_.class_of_device),
                                 "BR_EDR")
               /\ post.hci = pre.hci /\ post.sent = pre.sent]_vars

\* A second CreateConnection to the peer of the pending connection was refused.
C10_Witness ==
  /\ call.op = "CreateConnection"
  /\ Connections_HasPendingConnection(call.pre, call.addr)
  /\ ctl[Dev].ret = CONTROLLER_BUSY

\* C2: once 20 ms of scheduler time have passed since Disconnect(h) returned
\* SUCCESS, h is not live and exactly one DisconnectionComplete was sent to
\* the host for h.
C2_DisconnectCompletes ==
  \A i \in DOMAIN log :
    (/\ log[i].op = "Disconnect"
     /\ log[i].ret = SUCCESS
     /\ \/ now > log[i].t + 20
        \/ now = log[i].t + 20 /\ SchedulerIdle(ctl[Dev]))
    => /\ ~Connections_HasHandle(ctl[Dev], log[i].handle)
       /\ Cardinality(EventsFor(ctl[Dev], "DisconnectionComplete",
                                log[i].handle)) = 1

\* 20 ms after a successful Disconnect, with its event delivered.
C2_Witness ==
  \E i \in DOMAIN log :
    /\ log[i].op = "Disconnect"
    /\ log[i].ret = SUCCESS
    /\ now >= log[i].t + 20
    /\ EventsFor(ctl[Dev], "DisconnectionComplete", log[i].handle) # {}

\* The steps that run IncomingPageResponsePacket, MakeSlaveConnection or
\* HandleLeConnection.
CreationStep ==
  \/ call'.op = "MakeSlaveConnection"
  \/ /\ call'.op = "IncomingPacket"
     /\ call'.pkt.type \in {"PAGE_RESPONSE", "LE_CONNECT",
                            "LE_CONNECT_COMPLETE"}

CompletionEvents(evs) ==
  {k \in DOMAIN evs :
     evs[k].ev \in {"ConnectionComplete", "LeMetaEvent:LeConnectionComplete"}}

\* C3: a connection-creation step either obtains the reserved handle and
\* then reports no connection to the host, or obtains a handle that was not
\* live: it adds one record under a new handle, leaves every live record as
\* it was and reports exactly that handle.
C3_HandleFresh ==
  [][CreationStep =>
       LET pre == ctl[Dev]
           post == ctl'[Dev]
           created == Live(post) \ Live(pre)
           evs == NewEvents(pre, post)
       IN /\ Live(pre) \subseteq Live(post)
          /\ \A h \in Live(pre) :
               post.connections_.acl_connections_[h] =
                 pre.connections_.acl_connections_[h]
          /\ Cardinality(created) <= 1
          /\ kReservedHandle \notin Live(post)
          /\ Cardinality(CompletionEvents(evs)) = Cardinality(created)
          /\ \A k \in CompletionEvents(evs) :
               evs[k].status = SUCCESS /\ evs[k].handle \in created]_vars

\* A creation step found no free handle while two connections were live.
C3_Witness ==
  /\ call.op = "IncomingPacket"
  /\ call.pkt.type = "LE_CONNECT"
  /\ Cardinality(Live(call.pre)) = NumHandles
  /\ Connections_GetUnusedHandle(call.pre) = kReservedHandle
  /\ Live(ctl[Dev]) = Live(call.pre)
  /\ ctl[Dev].hci = call.pre.hci

(***************************************************************************)
(* SpecHandle: the commands that name a connection by its handle.          *)
(***************************************************************************)
ReceivePageResponse == \E pkt \in PageResponsePackets : Receive(pkt)

NextHandle ==
  \/ DoCreateConnection
  \/ ReceivePageResponse
  \/ DoSetLeAdvertisingEnable
  \/ ReceiveLeConnect
  \/ DoDisconnect
  \/ DoSendCommandToRemoteByHandle
  \/ DoSendAclToRemote
  \/ DoAuthenticationRequested
  \/ DoSetConnectionEncryption
  \/ DoChangeConnectionPacketType
  \/ DoWriteLinkPolicySettings
  \/ DoWriteLinkSupervisionTimeout
  \/ DoLeConnectionUpdate
  \/ DoLeEnableEncryption
  \/ DoLeLongTermKeyRequestReply
  \/ DoLeLongTermKeyRequestNegativeReply
  \/ RunTask
  \/ AdvanceTime

SpecHandle == Init /\ [][NextHandle]_vars

HandleCommands ==
  {"SendCommandToRemoteByHandle", "SendAclToRemote",
   "AuthenticationRequested", "SetConnectionEncryption", "Disconnect",
   "ChangeConnectionPacketType", "WriteLinkPolicySettings",
   "WriteLinkSupervisionTimeout", "LeConnectionUpdate", "LeEnableEncryption",
   "LeLongTermKeyRequestReply", "LeLongTermKeyRequestNegativeReply"}

\* C8: a handle command called with a handle that is not live returns
\* UNKNOWN_CONNECTION and changes nothing else: no event, no packet, no task,
\* no change of the connection, security or advertiser state.
C8_UnknownConnection ==
  [][(call'.op \in HandleCommands /\ call'.handle \notin Live(ctl[Dev])) =>
       ctl'[Dev] = [ctl[Dev] EXCEPT !.ret = UNKNOWN_CONNECTION]]_vars

\* A handle command refused for a handle that Disconnect had removed.
C8_Witness ==
  /\ call.op \in HandleCommands \ {"Disconnect"}
  /\ call.handle \notin Live(call.pre)
  /\ \E i \in DOMAIN log :
       log[i].op = "Disconnect" /\ log[i].ret = SUCCESS
       /\ log[i].handle = call.handle
  /\ ctl[Dev].ret = UNKNOWN_CONNECTION

(***************************************************************************)
(* SpecFilter: packets for every destination reach the dispatcher.         *)
(***************************************************************************)
Destinations == {AddrA, AddrLeA, kEmpty, AddrAdv, AddrOther}

AdvertisingSets == 0..(NumAdvertisers - 1)

DoSetLeExtendedAddress ==
  \E set \in AdvertisingSets :
    CmdArg("SetLeExtendedAddress", set,
           SetLeExtendedAddress(ctl[Dev], set, AddrAdv))

DoSetLeExtendedAdvertisingEnable ==
  \E set \in AdvertisingSets, enable \in BOOLEAN :
    CmdArg("SetLeExtendedAdvertisingEnable", set,
           SetLeExtendedAdvertisingEnable(ctl[Dev], enable,
             <<[advertising_handle_ |-> set, duration_ |-> 0]>>, "none"))

DoSetInquiryScanEnable ==
  Cmd("SetInquiryScanEnable", kReservedHandle, kEmpty,
      SetInquiryScanEnable(ctl[Dev], TRUE))

ReceiveAnywhere ==
  \E type \in {"PAGE", "REMOTE_NAME_REQUEST", "LE_SCAN"},
     dst \in Destinations :
    Receive(Packet(type, AddrP1, dst, 7))

ReceiveInquiryAnywhere ==
  \E dst \in Destinations : Receive(Packet("INQUIRY", AddrP1, dst, "STANDARD"))

ReceiveLeConnectAnywhere ==
  \E dst \in Destinations :
    Receive(Packet("LE_CONNECT", AddrP1, dst,
                   [interval_min |-> 6, interval_max |-> 9, latency |-> 0,
                    supervision_timeout |-> 100,
                    address_type |-> PUBLIC_DEVICE_ADDRESS]))

NextFilter ==
  \/ DoSetLeExtendedAddress
  \/ DoSetLeExtendedAdvertisingEnable
  \/ DoSetPageScanEnable
  \/ DoSetInquiryScanEnable
  \/ ReceiveAnywhere
  \/ ReceiveInquiryAnywhere
  \/ ReceiveLeConnectAnywhere
  \/ RunTask
  \/ AdvanceTime

SpecFilter == Init /\ [][NextFilter]_vars

\* The addresses the controller answers to.
OwnAddresses(c) ==
  {kEmpty, c.properties_.address, c.properties_.le_address}
    \cup {c.advertisers_[i].address_.address :
            i \in {j \in DOMAIN c.advertisers_ : c.advertisers_[j].enabled_}}

\* C1: a packet whose destination is not the public address, the LE address,
\* the empty address or the address of an enabled advertiser reaches no
\* handler: the controller is left exactly as it was (no event, no ACL data,
\* no packet, no task, the same connection, security, advertiser and scan
\* state).
C1_AddressFilter ==
  [][(call'.op = "IncomingPacket"
      /\ call'.pkt.dst \notin OwnAddresses(ctl[Dev])) =>
       ctl'[Dev] = ctl[Dev]]_vars

\* A name request for the address of an advertiser that is not enabled was
\* dropped.
C1_Witness ==
  /\ call.op = "IncomingPacket"
  /\ call.pkt.type = "REMOTE_NAME_REQUEST"
  /\ call.pkt.dst = AddrAdv
  /\ \E i \in DOMAIN call.pre.advertisers_ :
       /\ call.pre.advertisers_[i].address_.address = AddrAdv
       /\ ~call.pre.advertisers_[i].enabled_
  /\ call.pkt.dst \notin OwnAddresses(call.pre)
  /\ ctl[Dev] = call.pre

(***************************************************************************)
(* SpecPair: the host's pairing replies, with and without a pairing in     *)
(* progress.                                                               *)
(***************************************************************************)
DoLinkKeyRequestReply ==
  \E peer \in Peers :
    Cmd("LinkKeyRequestReply", kReservedHandle, peer,
        LinkKeyRequestReply(ctl[Dev], peer, OtherKey))

DoLinkKeyRequestNegativeReply ==
  \E peer \in Peers :
    Cmd("LinkKeyRequestNegativeReply", kReservedHandle, peer,
        LinkKeyRequestNegativeReply(ctl[Dev], peer))

DoIoCapabilityRequestReply ==
  \E peer \in Peers :
    Cmd("IoCapabilityRequestReply", kReservedHandle, peer,
        IoCapabilityRequestReply(ctl[Dev], peer, 1))

DoIoCapabilityRequestNegativeReply ==
  \E peer \in Peers :
    Cmd("IoCapabilityRequestNegativeReply", kReservedHandle, peer,
        IoCapabilityRequestNegativeReply(ctl[Dev], peer,
                                         AUTHENTICATION_FAILURE))

DoUserConfirmationRequestReply ==
  \E peer \in Peers :
    Cmd("UserConfirmationRequestReply", kReservedHandle, peer,
        UserConfirmationRequestReply(ctl[Dev], peer))

DoUserConfirmationRequestNegativeReply ==
  \E peer \in Peers :
    Cmd("UserConfirmationRequestNegativeReply", kReservedHandle, peer,
        UserConfirmationRequestNegativeReply(ctl[Dev], peer))

DoUserPasskeyRequestReply ==
  \E peer \in Peers :
    Cmd("UserPasskeyRequestReply", kReservedHandle, peer,
        UserPasskeyRequestReply(ctl[Dev], peer, 123456))

DoUserPasskeyRequestNegativeReply ==
  \E peer \in Peers :
    Cmd("UserPasskeyRequestNegativeReply", kReservedHandle, peer,
        UserPasskeyRequestNegativeReply(ctl[Dev], peer))

DoRemoteOobDataRequestReply ==
  \E peer \in Peers :
    Cmd("RemoteOobDataRequestReply", kReservedHandle, peer,
        RemoteOobDataRequestReply(ctl[Dev], peer))

DoRemoteOobDataRequestNegativeReply ==
  \E peer \in Peers :
    Cmd("RemoteOobDataRequestNegativeReply", kReservedHandle, peer,
        RemoteOobDataRequestNegativeReply(ctl[Dev], peer))

NextPair ==
  \/ DoCreateConnection
  \/ ReceivePageResponse
  \/ DoAuthenticationRequested
  \/ DoLinkKeyRequestReply
  \/ DoLinkKeyRequestNegativeReply
  \/ DoIoCapabilityRequestReply
  \/ DoIoCapabilityRequestNegativeReply
  \/ DoUserConfirmationRequestReply
  \/ DoUserConfirmationRequestNegativeReply
  \/ DoUserPasskeyRequestReply
  \/ DoUserPasskeyRequestNegativeReply
  \/ DoRemoteOobDataRequestReply
  \/ DoRemoteOobDataRequestNegativeReply
  \/ RunTask
  \/ AdvanceTime

SpecPair == Init /\ [][NextPair]_vars

PairingReplies ==
  {"IoCapabilityRequestReply", "IoCapabilityRequestNegativeReply",
   "LinkKeyRequestReply", "LinkKeyRequestNegativeReply",
   "UserConfirmationRequestReply", "UserConfirmationRequestNegativeReply",
   "UserPasskeyRequestReply", "UserPasskeyRequestNegativeReply",
   "RemoteOobDataRequestReply", "RemoteOobDataRequestNegativeReply"}

\* C9: a pairing reply for a peer that is not the authentication address
\* returns AUTHENTICATION_FAILURE and does nothing else: no key is written or
\* deleted, the IO capabilities and the authentication slot keep their
\* values, nothing is scheduled and nothing is emitted.
C9_RepliesRejected ==
  [][(call'.op \in PairingReplies
      /\ call'.addr # Security_GetAuthenticationAddress(ctl[Dev])) =>
       ctl'[Dev] = [ctl[Dev] EXCEPT !.ret = AUTHENTICATION_FAILURE]]_vars

\* The replies whose code compares the peer with the authentication address.
CheckedReplies ==
  PairingReplies \ {"LinkKeyRequestReply", "LinkKeyRequestNegativeReply",
                    "IoCapabilityRequestReply"}

\* The seven replies that compare the peer do reject, and do nothing else.
CheckedRepliesRejected ==
  [][(call'.op \in CheckedReplies
      /\ call'.addr # Security_GetAuthenticationAddress(ctl[Dev])) =>
       ctl'[Dev] = [ctl[Dev] EXCEPT !.ret = AUTHENTICATION_FAILURE]]_vars

(***************************************************************************)
(* SpecEnc: encryption of BR/EDR and LE connections.                       *)
(***************************************************************************)
ReceiveEncryptConnectionResponse ==
  \E p \in Peers :
    Receive(Packet("ENCRYPT_CONNECTION_RESPONSE", p, AddrA, OtherKey))

ReceiveLeEncryptConnectionResponse ==
  \E p \in Peers, ltk \in {OtherKey, ZeroKey} :
    Receive(Packet("LE_ENCRYPT_CONNECTION_RESPONSE", p, AddrA,
                   [rand |-> 0, ediv |-> 0, ltk |-> ltk]))

NextEnc ==
  \/ DoCreateConnection
  \/ ReceivePageResponse
  \/ DoSetLeAdvertisingEnable
  \/ ReceiveLeConnect
  \/ ReceiveEncryptConnectionResponse
  \/ ReceiveLeEncryptConnectionResponse
  \/ DoLeLongTermKeyRequestReply
  \/ RunTask
  \/ AdvanceTime

SpecEnc == Init /\ [][NextEnc]_vars

\* The step now taken encrypts handle h of c on the LE path: the host's
\* long-term-key reply for h, or the peer's LE encryption response.
LeEncrypts(c, h) ==
  \/ call'.op = "LeLongTermKeyRequestReply" /\ call'.handle = h
  \/ /\ call'.op = "IncomingPacket"
     /\ call'.pkt.type = "LE_ENCRYPT_CONNECTION_RESPONSE"
     /\ Connections_GetHandleOnlyAddress(c, call'.pkt.src) = h

\* The step now taken is the receipt of the peer's BR/EDR encryption
\* response for handle h of c.
ResponseEncrypts(c, h) ==
  /\ call'.op = "IncomingPacket"
  /\ call'.pkt.type = "ENCRYPT_CONNECTION_RESPONSE"
  /\ Connections_GetHandleOnlyAddress(c, call'.pkt.src) = h

\* The names of the events a step emitted.
NewEventNames(pre, post) ==
  [k \in DOMAIN NewEvents(pre, post) |-> NewEvents(pre, post)[k].ev]

\* On the LE path a live handle is encrypted afterwards, with one
\* EncryptionChange when it was not encrypted before and one
\* EncryptionKeyRefreshComplete when it was.
LeEncryptedAfter(c, d, h) ==
  /\ Connections_IsEncrypted(d, h)
  /\ NewEventNames(c, d) =
       IF Connections_IsEncrypted(c, h)
       THEN <<"EncryptionKeyRefreshComplete">> ELSE <<"EncryptionChange">>

\* C4: for every live handle h, after the long-term-key reply for h or the
\* receipt of an encryption response (BR/EDR or LE) from the peer of h, h is
\* encrypted; a handle that was encrypted stays encrypted, and the LE path
\* then emits EncryptionKeyRefreshComplete instead of EncryptionChange.
C4_EncryptedAfterResponse ==
  [][\A h \in Live(ctl[Dev]) :
       /\ LeEncrypts(ctl[Dev], h) => LeEncryptedAfter(ctl[Dev], ctl'[Dev], h)
       /\ ResponseEncrypts(ctl[Dev], h) =>
            Connections_IsEncrypted(ctl'[Dev], h)]_vars

\* The LE half of C4 alone.
LeEncryptedAfterResponse ==
  [][\A h \in Live(ctl[Dev]) :
       LeEncrypts(ctl[Dev], h) =>
         LeEncryptedAfter(ctl[Dev], ctl'[Dev], h)]_vars

\* An LE connection that was encrypted got a key refresh.
LeKeyRefreshed ==
  /\ call.op = "LeLongTermKeyRequestReply"
  /\ Connections_IsEncrypted(call.pre, call.handle)
  /\ Connections_IsEncrypted(ctl[Dev], call.handle)

(***************************************************************************)
(* SpecAdv: legacy advertising under every own-address type, LE address    *)
(* and advertising interval around the 20 ms limit.                        *)
(***************************************************************************)
AddressTypes ==
  {PUBLIC_DEVICE_ADDRESS, RANDOM_DEVICE_ADDRESS, PUBLIC_IDENTITY_ADDRESS,
   RANDOM_IDENTITY_ADDRESS}

\* In units of 0.625 ms: 31 + 32 gives 19 ms, 32 + 32 gives 20 ms.
AdvertisingIntervals == {31, 32, 33}

InitAdv ==
  \E own_address_type \in AddressTypes,
     le_address \in {kEmpty, AddrUnsetLe, AddrLeA},
     interval_min \in AdvertisingIntervals,
     interval_max \in AdvertisingIntervals :
    InitWith(Properties(own_address_type, le_address, interval_min,
                        interval_max), MaxInputs)

DoTimerTick ==
  Cmd("TimerTick", kReservedHandle, kEmpty, TimerTick(ctl[Dev]))

NextAdv ==
  \/ DoSetLeAdvertisingEnable
  \/ DoSetLeExtendedAdvertisingEnable
  \/ DoTimerTick
  \/ RunTask
  \/ AdvanceTime

SpecAdv == InitAdv /\ [][NextAdv]_vars

\* The own-address type is random and the LE address is not set.
RandomAddressUnset(c) ==
  /\ c.properties_.le_advertising_own_address_type
       \in {RANDOM_DEVICE_ADDRESS, RANDOM_IDENTITY_ADDRESS}
  /\ c.properties_.le_address \in {kEmpty, AddrUnsetLe}

\* (min + max) * 0.625 / 2 ms is below 20 ms.
IntervalTooShort(c) ==
  (c.properties_.le_advertising_interval_min +
   c.properties_.le_advertising_interval_max) * 625 < 20 * 2000

\* C7: SetLeAdvertisingEnable(1) returns INVALID_HCI_COMMAND_PARAMETERS and
\* changes nothing (advertiser 0 is neither initialized nor enabled by it)
\* when the own-address type is random with the LE address unset, or when the
\* interval is below 20 ms; in every other case it returns SUCCESS and
\* advertiser 0 is initialized and enabled, and nothing else changes.
C7_AdvertisingEnableValidated ==
  [][(call'.op = "SetLeAdvertisingEnable" /\ call'.arg = 1) =>
       IF RandomAddressUnset(ctl[Dev]) \/ IntervalTooShort(ctl[Dev])
       THEN ctl'[Dev] =
              [ctl[Dev] EXCEPT !.ret = INVALID_HCI_COMMAND_PARAMETERS]
       ELSE /\ ctl'[Dev].ret = SUCCESS
            /\ ctl'[Dev].advertisers_[0].initialized_
            /\ ctl'[Dev].advertisers_[0].enabled_
            /\ ctl'[Dev] =
                 [ctl[Dev] EXCEPT !.ret = SUCCESS,
                                  !.advertisers_[0] =
                                     ctl'[Dev].advertisers_[0]]]_vars

\* Advertising with a random identity address and the unset LE address was
\* refused although the interval is long enough.
C7_Witness ==
  /\ call.op = "SetLeAdvertisingEnable"
  /\ call.arg = 1
  /\ call.pre.properties_.le_advertising_own_address_type =
       RANDOM_IDENTITY_ADDRESS
  /\ call.pre.properties_.le_address = AddrUnsetLe
  /\ ~IntervalTooShort(call.pre)
  /\ ctl[Dev].ret = INVALID_HCI_COMMAND_PARAMETERS
  /\ ~ctl[Dev].advertisers_[0].initialized_

(***************************************************************************)
(* SpecInq: inquiries, their timeouts and the periodic timer tick.  The    *)
(* steady clock reads BootTime when the host starts; last_inquiry_ is the  *)
(* clock's epoch.                                                          *)
(***************************************************************************)
BootTime == 2000

MaxTicks == 4

\* The instants of the periodic timer.
TickTimes == {BootTime + 1000 * k : k \in 0..MaxTicks}

InquiryLengths == {1000, 3000}

InitInq ==
  /\ ctl = [d \in {Dev} |-> NewController(DefaultProperties)]
  /\ now = BootTime
  /\ call = NoCall
  /\ inputs = MaxInputs - 1
  /\ log = <<>>

\* The host sends its commands at timer instants.
DoStartInquiry ==
  \E timeout \in InquiryLengths :
    /\ now \in TickTimes
    /\ Step("StartInquiry", kReservedHandle, kEmpty, timeout, NoPacket,
            StartInquiry(ctl[Dev], timeout))
    /\ log' = LoggedArg("StartInquiry", timeout)

DoInquiryCancel ==
  /\ now \in TickTimes
  /\ Step("InquiryCancel", kReservedHandle, kEmpty, 0, NoPacket,
          InquiryCancel(ctl[Dev]))
  /\ log' = LoggedArg("InquiryCancel", 0)

DoReset ==
  /\ now \in TickTimes
  /\ Step("Reset", kReservedHandle, kEmpty, 0, NoPacket, Reset(ctl[Dev]))
  /\ log' = LoggedArg("Reset", 0)

\* The Inquiry packets a step handed to the link layer.
InquiriesSent(pre, post) ==
  {k \in DOMAIN NewTasks(pre, post) :
     /\ NewTasks(pre, post)[k].cb.name = "send_to_remote_"
     /\ NewTasks(pre, post)[k].cb.pkt.type = "INQUIRY"}

\* The periodic timer fires, once per timer instant; the log keeps whether an
\* Inquiry packet was emitted.
PeriodicTimerTick ==
  LET c == ctl[Dev]
      d == TimerTick(c)
  IN /\ ~c.aborted
     /\ now \in TickTimes
     /\ \A i \in DOMAIN log : log[i].op = "TimerTick" => log[i].t < now
     /\ ctl' = [ctl EXCEPT ![Dev] = d]
     /\ call' = [NoCall EXCEPT !.op = "TimerTick", !.pre = c]
     /\ log' = LoggedArg("TimerTick", Cardinality(InquiriesSent(c, d)))
     /\ UNCHANGED <<now, inputs>>

\* Time passes up to the next timer instant or the next task that is due.
PassTime ==
  LET c == ctl[Dev]
      tick == MinOf({g \in TickTimes : g > now})
  IN /\ ~c.aborted
     /\ SchedulerIdle(c)
     /\ \E g \in TickTimes : g > now
     /\ now' = IF c.tasks = <<>> THEN tick
               ELSE MinInt(tick, c.tasks[Scheduler_Next(c)].due)
     /\ call' = [NoCall EXCEPT !.op = "PassTime", !.pre = c]
     /\ UNCHANGED <<ctl, inputs, log>>

NextInq ==
  \/ DoStartInquiry
  \/ DoInquiryCancel
  \/ DoReset
  \/ PeriodicTimerTick
  \/ RunTask
  \/ PassTime

SpecInq == InitInq /\ [][NextInq]_vars

\* The log entries that started an inquiry.
Inquiries == {k \in DOMAIN log : log[k].op = "StartInquiry"}

\* The instant at which the timeout of inquiry k is due.
Expiry(k) == log[k].t + log[k].arg

\* The log entries that end an inquiry early.
Enders == {j \in DOMAIN log : log[j].op \in {"InquiryCancel", "Reset"}}

\* Inquiry k was ended by InquiryCancel or Reset before its timeout.
EndedEarly(k) == \E j \in Enders : j > k /\ log[j].t < Expiry(k)

\* The InquiryComplete(SUCCESS) events emitted at instant e.
InquiryCompletesAt(e) ==
  {i \in DOMAIN ctl[Dev].hci :
     /\ ctl[Dev].hci[i].ev = "InquiryComplete"
     /\ ctl[Dev].hci[i].status = SUCCESS
     /\ ctl[Dev].hci[i].t = e}

\* Instant e has passed with every task due by then run, and no command that
\* ends an inquiry came at e itself.
Settled(e) ==
  /\ e < now
  /\ \A j \in Enders : log[j].t # e

\* Each inquiry has its own InquiryComplete at its timeout unless it was
\* ended early, and no other InquiryComplete exists.
OneCompletePerInquiry ==
  /\ \A k \in Inquiries :
       Settled(Expiry(k)) =>
         Cardinality(InquiryCompletesAt(Expiry(k))) =
           Cardinality({m \in Inquiries :
                          Expiry(m) = Expiry(k) /\ ~EndedEarly(m)})
  /\ \A i \in DOMAIN ctl[Dev].hci :
       ctl[Dev].hci[i].ev = "InquiryComplete" =>
         \E k \in Inquiries : Expiry(k) = ctl[Dev].hci[i].t

\* C5: every StartInquiry(timeout) that no InquiryCancel or Reset follows
\* before its timeout gives exactly one InquiryComplete(SUCCESS), emitted
\* when the timeout task fires; an inquiry ended by InquiryCancel or Reset
\* before its timeout gives none.
C5_OneInquiryComplete == ~ctl[Dev].aborted => OneCompletePerInquiry

\* No inquiry was started while an earlier one was still running.
InquiriesApart ==
  \A k, m \in Inquiries :
    k < m => \/ log[m].t > Expiry(k)
             \/ \E j \in Enders : k < j /\ j < m

\* Inquiries that do not overlap each complete exactly once.
InquiryCompletesWhenAlone ==
  (~ctl[Dev].aborted /\ InquiriesApart) => OneCompletePerInquiry

\* The instants before which Inquiry refuses to emit: the emissions and the
\* resets so far, and with neither the clock's epoch.
Emissions ==
  {log[i].t : i \in {j \in DOMAIN log :
                       log[j].op = "TimerTick" /\ log[j].arg > 0}}

Resets == {log[i].t : i \in {j \in DOMAIN log : log[j].op = "Reset"}}

InquiryActive(c) == c.inquiry_timer_task_id_ # kInvalidTaskId

InputNumber == MaxInputs - inputs + 1

\* The log entries for what turned pre into post, all caused by input n.
Traced(pre, post, n) ==
  LET tasks == SelectSeq(post.tasks, LAMBDA k : k.id >= pre.next_task_id)
      outputs == (Len(post.hci) - Len(pre.hci)) +
                 (Len(post.sent) - Len(pre.sent))
  IN [k \in 1..Len(tasks) |->
        [op |-> "Task", handle |-> tasks[k].id, ret |-> SUCCESS, arg |-> n,
         t |-> now]]
     \o [k \in 1..outputs |->
           [op |-> "Output", handle |-> kReservedHandle, ret |-> SUCCESS,
            arg |-> n, t |-> now]]

TracedInput(op, addr, arg, pkt, c2) ==
  /\ Step(op, kReservedHandle, addr, arg, pkt, c2)
  /\ log' = log \o Traced(ctl[Dev], c2, InputNumber)

TracedCreateConnection ==
  \E addr \in Peers :
    TracedInput("CreateConnection", addr, 0, NoPacket,
                CreateConnection(ctl[Dev], addr, 1))

TracedAcceptConnectionRequest ==
  \E addr \in Peers :
    TracedInput("AcceptConnectionRequest", addr, 0, NoPacket,
                AcceptConnectionRequest(ctl[Dev], addr, 0))

TracedSetPageScanEnable ==
  TracedInput("SetPageScanEnable", kEmpty, 0, NoPacket,
              SetPageScanEnable(ctl[Dev], TRUE))

TracedSetLeAdvertisingEnable ==
  TracedInput("SetLeAdvertisingEnable", kEmpty, 1, NoPacket,
              SetLeAdvertisingEnable(ctl[Dev], 1))

TracedTimerTick ==
  TracedInput("TimerTick", kEmpty, 0, NoPacket, TimerTick(ctl[Dev]))

TracedReceivePage ==
  \E pkt \in PagePackets :
    TracedInput("IncomingPacket", pkt.src, 0, pkt,
                IncomingPacket(ctl[Dev], pkt))

TracedReceiveLeConnect ==
  \E pkt \in LeConnectPackets :
    TracedInput("IncomingPacket", pkt.src, 0, pkt,
                IncomingPacket(ctl[Dev], pkt))

\* The cause of the task with this id.
CauseOf(id) ==
  (CHOOSE e \in {log[k] : k \in DOMAIN log} :
     e.op = "Task" /\ e.handle = id).arg

\* RunTask, traced: what the task does has the cause of the task.
TracedRunTask ==
  LET c == ctl[Dev]
      i == Scheduler_Next(c)
      c1 == [c EXCEPT !.tasks = RemoveAt(@, i)]
      c2 == RunCallback(c1, c.tasks[i].cb)
  IN /\ ~c.aborted
     /\ i # 0
     /\ c.tasks[i].due <= now
     /\ ctl' = [ctl EXCEPT ![Dev] = c2]
     /\ call' = [op |-> c.tasks[i].cb.name, handle |-> c.tasks[i].cb.handle,
                 addr |-> c.tasks[i].cb.addr, arg |-> 0,
                 pkt |-> c.tasks[i].cb.pkt, pre |-> c]
     /\ log' = log \o Traced(c1, c2, CauseOf(c.tasks[i].id))
     /\ UNCHANGED <<now, inputs>>

NextFifo ==
  \/ TracedCreateConnection
  \/ TracedAcceptConnectionRequest
  \/ TracedSetPageScanEnable
  \/ TracedSetLeAdvertisingEnable
  \/ TracedTimerTick
  \/ TracedReceivePage
  \/ TracedReceiveLeConnect
  \/ TracedRunTask
  \/ AdvanceTime

SpecFifo == Init /\ [][NextFifo]_vars

\* The causes of the outputs, in the order of emission.
OutputCauses ==
  LET outputs == SelectSeq(log, LAMBDA e : e.op = "Output")
  IN [k \in DOMAIN outputs |-> outputs[k].arg]

\* C11 as stated: of two inputs, every output of the earlier one, those of
\* the tasks it scheduled included, is emitted before any output of the
\* later one.
C11_OutputsInInputOrder ==
  \A i, j \in DOMAIN OutputCauses :
    i < j => OutputCauses[i] <= OutputCauses[j]

\* The task a step ran: the one task of pre that is no longer there.
RanTasks(pre, post) ==
  {k \in DOMAIN pre.tasks :
     \A m \in DOMAIN post.tasks : post.tasks[m].id # pre.tasks[k].id}

\* C11, amended: LL packets leave in the order in which they were handed to
\* SendLinkLayerPacket / SendLeLinkLayerPacket, 50 ms after the call: when a
\* packet is sent, no packet handed over earlier is still waiting.
C11_PacketsInHandoverOrder ==
  [][call'.op = "send_to_remote_" =>
       \A k \in RanTasks(ctl[Dev], ctl'[Dev]) :
         /\ ctl[Dev].tasks[k].due = now
         /\ \A m \in DOMAIN ctl[Dev].tasks :
              ctl[Dev].tasks[m].cb.name = "send_to_remote_" =>
                ctl[Dev].tasks[m].id >= ctl[Dev].tasks[k].id]_vars

\* A packet of a later input was sent while an earlier input's task was
\* still waiting, and an earlier packet had gone out before it.
C11_Witness ==
  /\ call.op = "send_to_remote_"
  /\ Len(ctl[Dev].sent) >= 2
  /\ \E k \in DOMAIN call.pre.tasks, m \in DOMAIN call.pre.tasks :
       /\ k \in RanTasks(call.pre, ctl[Dev])
       /\ call.pre.tasks[m].cb.name # "send_to_remote_"
       /\ call.pre.tasks[m].id < call.pre.tasks[k].id

(***************************************************************************)
(* SpecLink: two controllers A and B on one medium.  A packet a controller *)
(* hands to send_to_remote_ reaches the other controller's IncomingPacket  *)
(* at the same instant; the two schedulers share one clock.                *)
(***************************************************************************)
Devices == {"A", "B"}

Other(d) == IF d = "A" THEN "B" ELSE "A"

\* B is the peer 0A:0B:0C:0D:0E:0F.
AddrB == AddrP1

AddrLeB == AddrP2

DeviceAddress(d) == IF d = "A" THEN AddrA ELSE AddrB

LinkProperties(d) ==
  IF d = "A"
  THEN DefaultProperties
  ELSE [DefaultProperties EXCEPT !.address = AddrB, !.le_address = AddrLeB,
                                 !.name = "B"]

\* No task runs later than this.
LinkMaxTime == 1000

\* The device a call was made on.
Caller == IF call.pre.properties_.address = AddrA THEN "A" ELSE "B"

DeliverOp(d) == IF d = "A" THEN "DeliverFromA" ELSE "DeliverFromB"

\* How many of d's packets the medium has delivered.
Delivered(d) == Cardinality({i \in DOMAIN log : log[i].op = DeliverOp(d)})

AllDelivered == \A d \in Devices : Delivered(d) = Len(ctl[d].sent)

\* Everything due on both controllers has run and has been delivered.
Quiet ==
  /\ AllDelivered
  /\ \A d \in Devices : SchedulerIdle(ctl[d])

\* A host command on controller d.
LinkStep(d, op, handle, addr, arg, c2) ==
  /\ ~ctl[d].aborted
  /\ inputs > 0
  /\ ctl' = [ctl EXCEPT ![d] = c2]
  /\ call' = [op |-> op, handle |-> handle, addr |-> addr, arg |-> arg,
              pkt |-> NoPacket, pre |-> ctl[d]]
  /\ inputs' = inputs - 1
  /\ UNCHANGED now

LinkCmd(d, op, handle, addr, c2) ==
  LinkStep(d, op, handle, addr, 0, c2) /\ UNCHANGED log

\* Controller d's scheduler runs its next task that is due.
LinkRunTask(d) ==
  LET c == ctl[d]
      i == Scheduler_Next(c)
  IN /\ ~c.aborted
     /\ i # 0
     /\ c.tasks[i].due <= now
     /\ ctl' = [ctl EXCEPT ![d] =
                  RunCallback([c EXCEPT !.tasks = RemoveAt(@, i)],
                              c.tasks[i].cb)]
     /\ call' = [op |-> c.tasks[i].cb.name, handle |-> c.tasks[i].cb.handle,
                 addr |-> c.tasks[i].cb.addr, arg |-> 0,
                 pkt |-> c.tasks[i].cb.pkt, pre |-> c]
     /\ UNCHANGED <<now, inputs, log>>

\* The medium hands d's oldest undelivered packet to the other controller.
Deliver(d) ==
  LET k == Delivered(d) + 1
      e == Other(d)
  IN /\ k <= Len(ctl[d].sent)
     /\ ~ctl[e].aborted
     /\ ctl' = [ctl EXCEPT ![e] = IncomingPacket(@, ctl[d].sent[k].pkt)]
     /\ call' = [op |-> "IncomingPacket", handle |-> kReservedHandle,
                 addr |-> ctl[d].sent[k].pkt.src, arg |-> 0,
                 pkt |-> ctl[d].sent[k].pkt, pre |-> ctl[e]]
     /\ log' = Append(log, [op |-> DeliverOp(d), handle |-> kReservedHandle,
                            ret |-> SUCCESS, arg |-> 0, t |-> now])
     /\ UNCHANGED <<now, inputs>>

\* The due times of the tasks pending on either controller.
PendingDues ==
  UNION {{ctl[d].tasks[k].due : k \in DOMAIN ctl[d].tasks} : d \in Devices}

\* Time passes up to the next task that is due on either controller.
LinkAdvanceTime ==
  /\ Quiet
  /\ \A d \in Devices : ~ctl[d].aborted
  /\ PendingDues # {}
  /\ \E due \in PendingDues :
       /\ \A other \in PendingDues : due <= other
       /\ due <= LinkMaxTime
       /\ now' = due
  /\ call' = [NoCall EXCEPT !.op = "AdvanceTime", !.pre = ctl["A"]]
  /\ UNCHANGED <<ctl, inputs, log>>

LinkCreateConnection ==
  LET c2 == CreateConnection(ctl["A"], AddrB, 1)
  IN /\ LinkStep("A", "CreateConnection", kReservedHandle, AddrB, 0, c2)
     /\ log' = Logged("CreateConnection", kReservedHandle, c2.ret)

LinkSetPageScanEnable ==
  \E enable \in BOOLEAN :
    LinkCmd("B", "SetPageScanEnable", kReservedHandle, kEmpty,
            SetPageScanEnable(ctl["B"], enable))

LinkAcceptConnectionRequest ==
  LinkCmd("B", "AcceptConnectionRequest", kReservedHandle, AddrA,
          AcceptConnectionRequest(ctl["B"], AddrA, 0))

DisconnectOp(d) == IF d = "A" THEN "DisconnectByA" ELSE "DisconnectByB"

\* The log keeps each Disconnect with the handle the peer holds for the
\* caller at that moment (arg).

LinkDisconnect ==
  \E d \in Devices, handle \in Handles :
    LET c2 == Disconnect(ctl[d], handle, REMOTE_USER_TERMINATED_CONNECTION)
    IN /\ LinkStep(d, "Disconnect", handle, kEmpty, 0, c2)
       /\ log' = Append(log,
                  [op |-> DisconnectOp(d), handle |-> handle, ret |-> c2.ret,
                   arg |-> Connections_GetHandleOnlyAddress(
                             ctl[Other(d)], DeviceAddress(d)),
                   t |-> now])

InitLink ==
  /\ ctl = [d \in Devices |-> NewController(LinkProperties(d))]
  /\ now = 0
  /\ call = NoCall
  /\ inputs = MaxInputs
  /\ log = <<>>

NextLink ==
  \/ LinkCreateConnection
  \/ LinkSetPageScanEnable
  \/ LinkAcceptConnectionRequest
  \/ LinkDisconnect
  \/ \E d \in Devices : LinkRunTask(d)
  \/ \E d \in Devices : Deliver(d)
  \/ LinkAdvanceTime

SpecLink == InitLink /\ [][NextLink]_vars

\* The schedulers run every task that is due, the medium delivers every
\* packet, and time does not stop.
FairSpecLink ==
  /\ SpecLink
  /\ \A d \in Devices : WF_vars(LinkRunTask(d)) /\ WF_vars(Deliver(d))
  /\ WF_vars(LinkAdvanceTime)

(***************************************************************************)
(* C12: BR/EDR connection establishment between A and B.                   *)
(***************************************************************************)
\* The ConnectionComplete(SUCCESS) events d's host has received that carry a
\* non-reserved handle and the other side's address.
ConnectionCompletes(d) ==
  {k \in DOMAIN ctl[d].hci :
     /\ ctl[d].hci[k].ev = "ConnectionComplete"
     /\ ctl[d].hci[k].status = SUCCESS
     /\ ctl[d].hci[k].handle # kReservedHandle
     /\ ctl[d].hci[k].addr = DeviceAddress(Other(d))}

\* A's CreateConnection(B) has returned SUCCESS.
CreatedByA ==
  \E i \in DOMAIN log :
    log[i].op = "CreateConnection" /\ log[i].ret = SUCCESS

\* B's host has just answered the ConnectionRequest from A.
AcceptedByB ==
  /\ call.op = "AcceptConnectionRequest"
  /\ Caller = "B"
  /\ call.addr = AddrA
  /\ ctl["B"].ret = SUCCESS
  /\ \E k \in DOMAIN ctl["B"].hci :
       /\ ctl["B"].hci[k].ev = "ConnectionRequest"
       /\ ctl["B"].hci[k].addr = AddrA

\* Every ConnectionComplete(SUCCESS) a step adds names a live handle that
\* is bound to the address in the event.
CompleteIsBound ==
  \A d \in Devices :
    \A k \in DOMAIN ctl'[d].hci :
      (/\ k > Len(ctl[d].hci)
       /\ ctl'[d].hci[k].ev = "ConnectionComplete"
       /\ ctl'[d].hci[k].status = SUCCESS)
      => /\ ctl'[d].hci[k].handle # kReservedHandle
         /\ Connections_HasHandle(ctl'[d], ctl'[d].hci[k].handle)
         /\ Connections_GetAddress(ctl'[d], ctl'[d].hci[k].handle).address
              = ctl'[d].hci[k].addr
         /\ ctl'[d].hci[k].addr = DeviceAddress(Other(d))

\* C12: once A's CreateConnection(B) has returned SUCCESS and B's host has
\* answered the ConnectionRequest with AcceptConnectionRequest(A), both
\* hosts eventually receive a further ConnectionComplete(SUCCESS) with a
\* non-reserved handle, and each side's handle is bound to the other side's
\* address.
C12_BothConnect ==
  /\ \A n \in 0..MaxInputs :
       (CreatedByA /\ AcceptedByB /\ Cardinality(ConnectionCompletes("B")) = n)
         ~> (/\ Cardinality(ConnectionCompletes("A")) > n
             /\ Cardinality(ConnectionCompletes("B")) > n)
  /\ [][CompleteIsBound]_vars

C12_Witness ==
  \E hA \in Handles, hB \in Handles :
    /\ CreatedByA
    /\ ConnectionCompletes("A") # {}
    /\ ConnectionCompletes("B") # {}
    /\ Connections_HasHandle(ctl["A"], hA)
    /\ Connections_GetAddress(ctl["A"], hA).address = AddrB
    /\ Connections_HasHandle(ctl["B"], hB)
    /\ Connections_GetAddress(ctl["B"], hB).address = AddrA

(***************************************************************************)
(* C13: disconnection of the A-B connection by A's host.                   *)
(***************************************************************************)
\* The instant t is over: everything due at t has run and been delivered.
Past(t) == now > t \/ (now = t /\ Quiet)

\* d's host has seen DisconnectionComplete(SUCCESS, handle, reason), emitted
\* at one of the instants in times.
SawDisconnection(d, handle, reason, times) ==
  \E k \in DOMAIN ctl[d].hci :
    /\ ctl[d].hci[k].ev = "DisconnectionComplete"
    /\ ctl[d].hci[k].status = SUCCESS
    /\ ctl[d].hci[k].handle = handle
    /\ ctl[d].hci[k].arg = reason
    /\ ctl[d].hci[k].t \in times

\* The successful Disconnect calls of A's host on a connection B also held.
DisconnectsByA ==
  {i \in DOMAIN log : /\ log[i].op = "DisconnectByA"
                      /\ log[i].ret = SUCCESS
                      /\ log[i].arg # kReservedHandle}

\* B's host has itself disconnected handle.
DisconnectedByB(handle) ==
  \E j \in DOMAIN log : /\ log[j].op = "DisconnectByB"
                        /\ log[j].ret = SUCCESS
                        /\ log[j].handle = handle

\* C13 as stated: 20 ms after A's Disconnect(h_A, 0x13) both hosts have seen
\* DisconnectionComplete(SUCCESS, h, CONNECTION_TERMINATED_BY_LOCAL_HOST) for
\* their handle, and the handle is live on neither side.
C13_BothSeeWithin20ms ==
  \A i \in DisconnectsByA :
    Past(log[i].t + 20) =>
      /\ SawDisconnection("A", log[i].handle,
                          CONNECTION_TERMINATED_BY_LOCAL_HOST,
                          log[i].t..(log[i].t + 20))
      /\ SawDisconnection("B", log[i].arg,
                          CONNECTION_TERMINATED_BY_LOCAL_HOST,
                          log[i].t..(log[i].t + 20))
      /\ ~Connections_HasHandle(ctl["A"], log[i].handle)
      /\ ~Connections_HasHandle(ctl["B"], log[i].arg)

\* C13 amended: A's handle is dead when Disconnect returns and A's host sees
\* DisconnectionComplete(SUCCESS, h_A, CONNECTION_TERMINATED_BY_LOCAL_HOST)
\* 20 ms later.  The Disconnect packet reaches B after 50 ms: unless B's host
\* disconnected h_B itself, h_B is live until then and dead afterwards, and
\* B's host sees DisconnectionComplete(SUCCESS, h_B, 0x13), the reason A's
\* host gave, 70 ms after the call.
C13_DisconnectSeenByBoth ==
  \A i \in DisconnectsByA :
    /\ ~Connections_HasHandle(ctl["A"], log[i].handle)
    /\ Past(log[i].t + 20) =>
         SawDisconnection("A", log[i].handle,
                          CONNECTION_TERMINATED_BY_LOCAL_HOST,
                          {log[i].t + 20})
    /\ ~DisconnectedByB(log[i].arg) =>
         /\ now < log[i].t + 50 => Connections_HasHandle(ctl["B"], log[i].arg)
         /\ Past(log[i].t + 50) => ~Connections_HasHandle(ctl["B"], log[i].arg)
         /\ ~SawDisconnection("B", log[i].arg,
                              CONNECTION_TERMINATED_BY_LOCAL_HOST, 0..now)
         /\ ~SawDisconnection("B", log[i].arg,
                              REMOTE_USER_TERMINATED_CONNECTION,
                              0..(log[i].t + 69))
         /\ Past(log[i].t + 70) =>
              SawDisconnection("B", log[i].arg,
                               REMOTE_USER_TERMINATED_CONNECTION,
                               {log[i].t + 70})

C13_Witness ==
  \E i \in DisconnectsByA :
    /\ Past(log[i].t + 70)
    /\ ~DisconnectedByB(log[i].arg)
    /\ SawDisconnection("A", log[i].handle,
                        CONNECTION_TERMINATED_BY_LOCAL_HOST, {log[i].t + 20})
    /\ SawDisconnection("B", log[i].arg, REMOTE_USER_TERMINATED_CONNECTION,
                        {log[i].t + 70})

(***************************************************************************)
(* SpecAcl: ACL data arriving from P1, before and after the connection to  *)
(* P1 exists, for every ACL data-packet size of the local controller.      *)
(***************************************************************************)
MaxAclSize == 3

MaxPayload == 4

\* A payload of the given length with distinct bytes.
PayloadOf(length) == [i \in 1..length |-> 16 + i]

\* Acl LL packets from src: every length, every boundary flag, two
\* broadcast flags.
AclPacketsFrom(src) ==
  {Packet("ACL", src, AddrA,
          [first_two_bytes |-> 1 + pb * 4096 + bc * 16384,
           payload |-> PayloadOf(length)]) :
     length \in 0..MaxPayload, pb \in 0..3, bc \in 0..1}

ReceiveAcl == \E pkt \in AclPacketsFrom(AddrP1) : Receive(pkt)

CreateConnectionToP1 ==
  Cmd("CreateConnection", kReservedHandle, AddrP1,
      CreateConnection(ctl[Dev], AddrP1, 1))

ReceivePageResponseFromP1 ==
  Receive(Packet("PAGE_RESPONSE", AddrP1, AddrA, 1))

InitAcl ==
  \E size \in 1..MaxAclSize :
    InitWith([DefaultProperties EXCEPT !.acl_data_packet_size = size],
             MaxInputs - 1)

NextAcl ==
  \/ CreateConnectionToP1
  \/ ReceivePageResponseFromP1
  \/ ReceiveAcl
  \/ RunTask
  \/ AdvanceTime

SpecAcl == InitAcl /\ [][NextAcl]_vars

\* The least n with n * size >= length.
Ceiling(length, size) ==
  CHOOSE n \in 0..length :
    n * size >= length /\ \A m \in 0..(n - 1) : m * size < length

\* What the step added to the host's stream.
Delivered_hci ==
  SubSeqFrom(ctl'[Dev].hci, Len(ctl[Dev].hci), Len(ctl'[Dev].hci))

RECURSIVE Concatenated(_)
Concatenated(frags) ==
  IF frags = <<>> THEN <<>>
  ELSE Head(frags).arg[3] \o Concatenated(Tail(frags))

AclArrives == call'.op = "IncomingPacket" /\ call'.pkt.type = "ACL"

\* C14: an incoming Acl packet with payload length L is delivered as
\* ceil(L/S) ACL packets of at most S bytes whose payloads concatenate to
\* the original; the first carries the inbound boundary flag, with
\* FIRST_NON_AUTOMATICALLY_FLUSHABLE (0) remapped to
\* FIRST_AUTOMATICALLY_FLUSHABLE (2), the later ones CONTINUING_FRAGMENT (1);
\* all carry the inbound broadcast flag and the local handle of the source.
FragmentsAsSpecified ==
  AclArrives =>
    LET size == ctl[Dev].properties_.acl_data_packet_size
        payload == call'.pkt.arg.payload
        pb == (call'.pkt.arg.first_two_bytes \div 4096) % 4
        bc == (call'.pkt.arg.first_two_bytes \div 16384) % 4
        out == Delivered_hci
    IN /\ Len(out) = Ceiling(Len(payload), size)
       /\ Concatenated(out) = payload
       /\ \A k \in DOMAIN out :
            /\ out[k].ev = "ACL_DATA"
            /\ Len(out[k].arg[3]) <= size
            /\ out[k].arg[1] = (IF k > 1 THEN 1 ELSE IF pb = 0 THEN 2 ELSE pb)
            /\ out[k].arg[2] = bc
            /\ out[k].handle =
                 Connections_GetHandleOnlyAddress(ctl[Dev], call'.pkt.src)
       /\ ctl'[Dev].sent = ctl[Dev].sent

C14_AclFragmentation == [][FragmentsAsSpecified]_vars

\* A payload longer than the data-packet size, and not a multiple of it, has
\* arrived from the connected peer and was delivered in several fragments.
C14_Witness ==
  /\ call.op = "IncomingPacket"
  /\ call.pkt.type = "ACL"
  /\ Connections_GetHandleOnlyAddress(call.pre, call.pkt.src) # kReservedHandle
  /\ Len(call.pkt.arg.payload) % call.pre.properties_.acl_data_packet_size # 0
  /\ Len(ctl[Dev].hci) >= Len(call.pre.hci) + 2
  /\ ctl[Dev].hci[Len(ctl[Dev].hci)].ev = "ACL_DATA"
  /\ (call.pkt.arg.first_two_bytes \div 4096) % 4 = 0

(***************************************************************************)
(* SpecDrop: connection-bound packets from P1 and P2, with and without a   *)
(* connection to P1.                                                       *)
(***************************************************************************)
ReceiveAclOfLength ==
  \E p \in Peers, length \in {0, MaxPayload} :
    Receive(Packet("ACL", p, AddrA,
                   [first_two_bytes |-> 1 + 2 * 4096,
                    payload |-> PayloadOf(length)]))

ReceiveDisconnect ==
  \E p \in Peers :
    Receive(Packet("DISCONNECT", p, AddrA, REMOTE_USER_TERMINATED_CONNECTION))

ReceiveEncryptConnection ==
  \E p \in Peers : Receive(Packet("ENCRYPT_CONNECTION", p, AddrA, OtherKey))

ReceiveLeEncryptConnection ==
  \E p \in Peers :
    Receive(Packet("LE_ENCRYPT_CONNECTION", p, AddrA,
                   [rand |-> 0, ediv |-> 0, ltk |-> OtherKey]))

ReceiveReadRemoteResponse ==
  \E p \in Peers :
    \/ Receive(Packet("READ_REMOTE_SUPPORTED_FEATURES_RESPONSE", p, AddrA, 255))
    \/ Receive(Packet("READ_REMOTE_EXTENDED_FEATURES_RESPONSE", p, AddrA,
                      [status |-> SUCCESS, page_number |-> 1,
                       max_page_number |-> 1, features |-> 1]))
    \/ Receive(Packet("READ_REMOTE_VERSION_INFORMATION_RESPONSE", p, AddrA, 9))
    \/ Receive(Packet("READ_CLOCK_OFFSET_RESPONSE", p, AddrA, 2))

NextDrop ==
  \/ CreateConnectionToP1
  \/ ReceivePageResponseFromP1
  \/ ReceiveAclOfLength
  \/ ReceiveDisconnect
  \/ ReceiveEncryptConnection
  \/ ReceiveEncryptConnectionResponse
  \/ ReceiveLeEncryptConnection
  \/ ReceiveLeEncryptConnectionResponse
  \/ ReceiveReadRemoteResponse
  \/ RunTask
  \/ AdvanceTime

SpecDrop == Init /\ [][NextDrop]_vars

ConnectionBoundTypes ==
  {"ACL", "DISCONNECT", "ENCRYPT_CONNECTION", "ENCRYPT_CONNECTION_RESPONSE",
   "LE_ENCRYPT_CONNECTION", "LE_ENCRYPT_CONNECTION_RESPONSE",
   "READ_REMOTE_SUPPORTED_FEATURES_RESPONSE",
   "READ_REMOTE_EXTENDED_FEATURES_RESPONSE",
   "READ_REMOTE_VERSION_INFORMATION_RESPONSE", "READ_CLOCK_OFFSET_RESPONSE"}

\* A packet of one of the types arrives from a source without a connection.
FromUnknownSource(types) ==
  /\ call'.op = "IncomingPacket"
  /\ call'.pkt.type \in types
  /\ Connections_GetHandleOnlyAddress(ctl[Dev], call'.pkt.src)
       = kReservedHandle

\* C15: a connection-bound packet whose source has no live connection is
\* dropped: nothing reaches the host, nothing is sent, no state changes.
C15_UnknownSourceDropped ==
  [][FromUnknownSource(ConnectionBoundTypes) => ctl'[Dev] = ctl[Dev]]_vars

\* The same for every connection-bound type but Acl.
UnknownSourceDroppedButAcl ==
  [][FromUnknownSource(ConnectionBoundTypes \ {"ACL"})
       => ctl'[Dev] = ctl[Dev]]_vars

\* ACL data carrying the reserved handle has reached the host.
AclWithReservedHandle ==
  \E k \in DOMAIN ctl[Dev].hci :
    /\ ctl[Dev].hci[k].ev = "ACL_DATA"
    /\ ctl[Dev].hci[k].handle = kReservedHandle

(***************************************************************************)
(* SpecSsp: simple pairing on an existing connection to P1.  The           *)
(* controller starts with simple pairing enabled and the connection made   *)
(* by CreateConnection(P1) and P1's page response.                         *)
(***************************************************************************)
ConnectedToP1 ==
  IncomingPacket(
    CreateConnection(WriteSimplePairingMode(NewController(DefaultProperties),
                                            TRUE),
                     AddrP1, 1),
    Packet("PAGE_RESPONSE", AddrP1, AddrA, 1))

InitSsp ==
  /\ now = 0
  /\ ctl = [d \in {Dev} |-> ConnectedToP1]
  /\ call = NoCall
  /\ inputs = MaxInputs
  /\ log = <<>>

\* IoCapability 1 is DISPLAY_YES_NO, 3 is NO_INPUT_NO_OUTPUT.
ReceiveIoCapabilityRequest ==
  \E p \in Peers, io_capability \in {1, 3} :
    Receive(Packet("IO_CAPABILITY_REQUEST", p, AddrA, io_capability))

\* Whether P1's pending request announced DISPLAY_YES_NO.
PeerDisplaysYesNo(c) ==
  /\ Security_GetAuthenticationAddress(c) = AddrP1
  /\ c.security_manager_.peer_capabilities_valid_
  /\ c.security_manager_.peer_io_capability_ = 1

\* The host's replies; the log keeps those for P1, the IoCapability reply
\* with whether it answers a DISPLAY_YES_NO request (arg).
SspIoCapabilityRequestReply ==
  \E peer \in Peers :
    LET c2 == IoCapabilityRequestReply(ctl[Dev], peer, 1)
    IN /\ Step("IoCapabilityRequestReply", kReservedHandle, peer, 0, NoPacket,
               c2)
       /\ log' = IF peer # AddrP1 THEN log
                 ELSE Append(log,
                        [op |-> "IoCapabilityRequestReply",
                         handle |-> kReservedHandle, ret |-> c2.ret,
                         arg |-> IF PeerDisplaysYesNo(ctl[Dev]) THEN 1 ELSE 0,
                         t |-> now])

SspUserConfirmationRequestReply ==
  \E peer \in Peers :
    LET c2 == UserConfirmationRequestReply(ctl[Dev], peer)
    IN /\ Step("UserConfirmationRequestReply", kReservedHandle, peer, 0,
               NoPacket, c2)
       /\ log' = IF peer # AddrP1 THEN log
                 ELSE Logged("UserConfirmationRequestReply", kReservedHandle,
                             c2.ret)

NextSsp ==
  \/ ReceiveIoCapabilityRequest
  \/ SspIoCapabilityRequestReply
  \/ SspUserConfirmationRequestReply
  \/ RunTask
  \/ AdvanceTime

SpecSsp == InitSsp /\ [][NextSsp]_vars

\* The instant t is over on the controller.
Elapsed(t) == now > t \/ (now = t /\ SchedulerIdle(ctl[Dev]))

\* The host's event k is ev about P1 with this handle and parameter, emitted
\* at one of the instants in times.
HostSaw(k, ev, handle, arg, times) ==
  /\ k \in DOMAIN ctl[Dev].hci
  /\ ctl[Dev].hci[k].ev = ev
  /\ ctl[Dev].hci[k].status = SUCCESS
  /\ ctl[Dev].hci[k].handle = handle
  /\ ctl[Dev].hci[k].addr \in {AddrP1, kEmpty}
  /\ ctl[Dev].hci[k].arg = arg
  /\ ctl[Dev].hci[k].t \in times

HciIndexes == 1..Len(ctl[Dev].hci)

\* The host's IoCapabilityRequestReply calls that answer a DISPLAY_YES_NO
\* request of P1.
DisplayYesNoReplies ==
  {i \in DOMAIN log : /\ log[i].op = "IoCapabilityRequestReply"
                      /\ log[i].ret = SUCCESS
                      /\ log[i].arg = 1}

\* The host's UserConfirmationRequestReply calls that follow such a reply
\* and its UserConfirmationRequest.
Confirmations ==
  {j \in DOMAIN log :
     /\ log[j].op = "UserConfirmationRequestReply"
     /\ log[j].ret = SUCCESS
     /\ \E i \in DisplayYesNoReplies : i < j /\ Elapsed(log[i].t + 5)
                                       /\ log[i].t + 5 <= log[j].t}

\* C16: on an existing connection, after the peer's IoCapabilityRequest
\* with DISPLAY_YES_NO and the host's IoCapabilityRequestReply with
\* DISPLAY_YES_NO, the host sees IoCapabilityResponse and then, 5 ms after
\* its reply, UserConfirmationRequest(123456); after its
\* UserConfirmationRequestReply it sees, 5 ms later,
\* SimplePairingComplete(SUCCESS) followed by LinkKeyNotification, and
\* 15 ms after the reply and not earlier AuthenticationComplete(SUCCESS)
\* with the handle of the connection.
C16_PairingEventOrder ==
  /\ \A i \in DisplayYesNoReplies :
       Elapsed(log[i].t + 5) =>
         \E a \in HciIndexes, b \in HciIndexes :
           /\ a < b
           /\ HostSaw(a, "IoCapabilityResponse", kReservedHandle, 1,
                      0..log[i].t)
           /\ HostSaw(b, "UserConfirmationRequest", kReservedHandle, 123456,
                      {log[i].t + 5})
  /\ Cardinality({k \in HciIndexes :
                    ctl[Dev].hci[k].ev = "AuthenticationComplete"})
       <= Cardinality({j \in DOMAIN log :
                         /\ log[j].op = "UserConfirmationRequestReply"
                         /\ log[j].ret = SUCCESS
                         /\ log[j].t + 15 <= now})
  /\ \A j \in Confirmations :
       /\ Elapsed(log[j].t + 5) =>
            \E b \in HciIndexes, c \in HciIndexes, d \in HciIndexes :
              /\ b < c /\ c < d
              /\ HostSaw(b, "UserConfirmationRequest", kReservedHandle,
                         123456, 0..log[j].t)
              /\ HostSaw(c, "SimplePairingComplete", kReservedHandle, 0,
                         {log[j].t + 5})
              /\ HostSaw(d, "LinkKeyNotification", kReservedHandle,
                         kPlaceholderKey, {log[j].t + 5})
              /\ Elapsed(log[j].t + 15) =>
                   \E e \in HciIndexes :
                     /\ d < e
                     /\ HostSaw(e, "AuthenticationComplete",
                                Connections_GetHandleOnlyAddress(ctl[Dev],
                                                                 AddrP1),
                                0, {log[j].t + 15})
                     /\ ctl[Dev].hci[e].handle # kReservedHandle

C16_Witness ==
  \E j \in Confirmations :
    /\ Elapsed(log[j].t + 15)
    /\ \E e \in HciIndexes :
         HostSaw(e, "AuthenticationComplete", 0, 0, {log[j].t + 15})

(***************************************************************************)
(* SpecLe: LE connection between the advertiser A and the initiator B.     *)
(***************************************************************************)
LeSetAdvertisingEnable ==
  \E enable \in {0, 1} :
    LinkStep("A", "SetLeAdvertisingEnable", kReservedHandle, kEmpty, enable,
             SetLeAdvertisingEnable(ctl["A"], enable))
    /\ UNCHANGED log

LeTimerTick ==
  LinkCmd("A", "TimerTick", kReservedHandle, kEmpty, TimerTick(ctl["A"]))

LeArmConnect ==
  \E peer \in {AddrA, AddrLeA},
     type \in {PUBLIC_DEVICE_ADDRESS, RANDOM_DEVICE_ADDRESS} :
    LinkStep("B", "ArmLeConnect", kReservedHandle, peer, type,
             ArmLeConnect(ctl["B"], peer, type))
    /\ UNCHANGED log

NextLe ==
  \/ LeSetAdvertisingEnable
  \/ LeTimerTick
  \/ LeArmConnect
  \/ \E d \in Devices : LinkRunTask(d)
  \/ \E d \in Devices : Deliver(d)
  \/ LinkAdvanceTime

SpecLe == InitLink /\ [][NextLe]_vars

FairSpecLe ==
  /\ SpecLe
  /\ \A d \in Devices : WF_vars(LinkRunTask(d)) /\ WF_vars(Deliver(d))
  /\ WF_vars(LinkAdvanceTime)

\* The LeConnectionComplete(SUCCESS) events d's host has received in this
\* role for a non-reserved handle and the other side's address.
LeConnectionCompletes(d, role) ==
  {k \in DOMAIN ctl[d].hci :
     /\ ctl[d].hci[k].ev = "LeMetaEvent:LeConnectionComplete"
     /\ ctl[d].hci[k].status = SUCCESS
     /\ ctl[d].hci[k].handle # kReservedHandle
     /\ ctl[d].hci[k].addr = DeviceAddress(Other(d))
     /\ ctl[d].hci[k].arg.role = role}

\* An ADV_IND beacon of A's enabled advertiser has just reached B, which
\* was armed with the beacon's address and address type.
BeaconReachedArmedB ==
  /\ call.op = "IncomingPacket"
  /\ call.pkt.type = "LE_ADVERTISEMENT"
  /\ Caller = "B"
  /\ call.pkt.arg.advertisement_type = "ADV_IND"
  /\ call.pre.le_connect_
  /\ call.pre.le_peer_address_ = call.pkt.src
  /\ call.pre.le_peer_address_type_ = call.pkt.arg.address_type
  /\ \E i \in DOMAIN ctl["A"].advertisers_ :
       /\ ctl["A"].advertisers_[i].enabled_
       /\ ctl["A"].advertisers_[i].address_.address = call.pkt.src

\* Every LeConnectionComplete(SUCCESS) a step adds names a live handle
\* bound to the address in the event: A's as SLAVE, B's as MASTER.
LeCompleteIsBound ==
  \A d \in Devices :
    \A k \in DOMAIN ctl'[d].hci :
      (/\ k > Len(ctl[d].hci)
       /\ ctl'[d].hci[k].ev = "LeMetaEvent:LeConnectionComplete")
      => /\ ctl'[d].hci[k].status = SUCCESS
         /\ ctl'[d].hci[k].handle # kReservedHandle
         /\ Connections_HasHandle(ctl'[d], ctl'[d].hci[k].handle)
         /\ Connections_GetAddress(ctl'[d], ctl'[d].hci[k].handle).address
              = ctl'[d].hci[k].addr
         /\ ctl'[d].hci[k].addr = DeviceAddress(Other(d))
         /\ ctl'[d].hci[k].arg.role = (IF d = "A" THEN "SLAVE" ELSE "MASTER")

\* C17: when A advertises ADV_IND with an enabled advertiser and B is armed
\* with A's address and address type, both hosts eventually receive a
\* further LeConnectionComplete(SUCCESS), A as SLAVE and B as MASTER, each
\* for a non-reserved handle bound to the other side's address.
C17_LeBothConnect ==
  /\ \A n \in 0..MaxInputs :
       (BeaconReachedArmedB
          /\ Cardinality(LeConnectionCompletes("B", "MASTER")) = n)
         ~> (/\ Cardinality(LeConnectionCompletes("A", "SLAVE")) > n
             /\ Cardinality(LeConnectionCompletes("B", "MASTER")) > n)
  /\ [][LeCompleteIsBound]_vars

C17_Witness ==
  \E hA \in Handles, hB \in Handles :
    /\ LeConnectionCompletes("A", "SLAVE") # {}
    /\ LeConnectionCompletes("B", "MASTER") # {}
    /\ Connections_HasHandle(ctl["A"], hA)
    /\ Connections_GetAddress(ctl["A"], hA).address = AddrB
    /\ Connections_GetPhyType(ctl["A"], hA) = "LOW_ENERGY"
    /\ Connections_HasHandle(ctl["B"], hB)
    /\ Connections_GetAddress(ctl["B"], hB).address = AddrA
    /\ Connections_GetPhyType(ctl["B"], hB) = "LOW_ENERGY"

(***************************************************************************)
(* SpecLtk: LE encryption responses with zero and non-zero long-term keys. *)
(***************************************************************************)
\* A key that is zero in every byte but the last.
LastByteKey == [i \in 1..16 |-> IF i = 16 THEN 1 ELSE 0]

ReceiveLeEncryptConnectionResponseWithKey ==
  \E p \in Peers, ltk \in {OtherKey, ZeroKey, LastByteKey} :
    Receive(Packet("LE_ENCRYPT_CONNECTION_RESPONSE", p, AddrA,
                   [rand |-> 0, ediv |-> 0, ltk |-> ltk]))

NextLtk ==
  \/ DoCreateConnection
  \/ ReceivePageResponse
  \/ ReceiveLeEncryptConnectionResponseWithKey
  \/ DoLeLongTermKeyRequestReply
  \/ DoLeLongTermKeyRequestNegativeReply
  \/ RunTask
  \/ AdvanceTime

SpecLtk == Init /\ [][NextLtk]_vars

\* An LeEncryptConnectionResponse arrives from a peer with a live connection.
LeResponseArrives ==
  /\ call'.op = "IncomingPacket"
  /\ call'.pkt.type = "LE_ENCRYPT_CONNECTION_RESPONSE"
  /\ Connections_GetHandleOnlyAddress(ctl[Dev], call'.pkt.src)
       # kReservedHandle

\* The one event the response produces, with the status the key demands.
StatusFollowsLtk ==
  LeResponseArrives =>
    LET handle == Connections_GetHandleOnlyAddress(ctl[Dev], call'.pkt.src)
        last == ctl'[Dev].hci[Len(ctl'[Dev].hci)]
    IN /\ Len(ctl'[Dev].hci) = Len(ctl[Dev].hci) + 1
       /\ last.handle = handle
       /\ last.ev = (IF Connections_IsEncrypted(ctl[Dev], handle)
                     THEN "EncryptionKeyRefreshComplete"
                     ELSE "EncryptionChange")
       /\ last.status \in {AUTHENTICATION_FAILURE, SUCCESS}
       /\ last.status = AUTHENTICATION_FAILURE
            <=> \A i \in 1..16 : call'.pkt.arg.ltk[i] = 0

\* A negative reply for a live handle hands exactly one response with an
\* all-zero LTK to the radio, addressed to the peer; for a dead handle
\* nothing is sent.
NegativeReplySendsZeroLtk ==
  call'.op = "LeLongTermKeyRequestNegativeReply" =>
    IF Connections_HasHandle(ctl[Dev], call'.handle)
    THEN /\ ctl'[Dev].ret = SUCCESS
         /\ Len(ctl'[Dev].tasks) = Len(ctl[Dev].tasks) + 1
         /\ \E k \in DOMAIN ctl'[Dev].tasks :
              /\ ctl'[Dev].tasks[k].id = ctl[Dev].next_task_id
              /\ ctl'[Dev].tasks[k].cb.name = "send_to_remote_"
              /\ ctl'[Dev].tasks[k].cb.pkt.type =
                   "LE_ENCRYPT_CONNECTION_RESPONSE"
              /\ ctl'[Dev].tasks[k].cb.pkt.dst =
                   Connections_GetAddress(ctl[Dev], call'.handle).address
              /\ \A i \in 1..16 : ctl'[Dev].tasks[k].cb.pkt.arg.ltk[i] = 0
    ELSE /\ ctl'[Dev].ret = UNKNOWN_CONNECTION
         /\ ctl'[Dev].tasks = ctl[Dev].tasks

\* A negative reply for a live handle has put its response on the air.
NegativeReplySent ==
  \E i \in DOMAIN ctl[Dev].sent :
    /\ ctl[Dev].sent[i].pkt.type = "LE_ENCRYPT_CONNECTION_RESPONSE"
    /\ ctl[Dev].sent[i].pkt.arg.ltk = ZeroKey

\* C18: the event an incoming LeEncryptConnectionResponse produces on a live
\* connection (EncryptionChange, or EncryptionKeyRefreshComplete when
\* already encrypted) has status AUTHENTICATION_FAILURE if and only if the
\* LTK is all zero, and SUCCESS otherwise; LeLongTermKeyRequestNegativeReply
\* sends a response with an all-zero LTK.
C18_ZeroLtkRejects ==
  [][StatusFollowsLtk /\ NegativeReplySendsZeroLtk]_vars

\* A zero-LTK response has refused a key refresh on a connection that an
\* earlier response with a key had encrypted.
C18_Witness ==
  /\ call.op = "IncomingPacket"
  /\ call.pkt.type = "LE_ENCRYPT_CONNECTION_RESPONSE"
  /\ call.pkt.arg.ltk = ZeroKey
  /\ \E k \in DOMAIN ctl[Dev].hci :
       /\ ctl[Dev].hci[k].ev = "EncryptionKeyRefreshComplete"
       /\ ctl[Dev].hci[k].status = AUTHENTICATION_FAILURE
  /\ \E k \in DOMAIN ctl[Dev].hci :
       /\ ctl[Dev].hci[k].ev = "EncryptionChange"
       /\ ctl[Dev].hci[k].status = SUCCESS

(***************************************************************************)
(* SpecSce: SetConnectionEncryption on dead and live handles, with and    *)
(* without a link key, on plain and on encrypted connections.              *)
(***************************************************************************)
SetConnectionEncryptionEither ==
  \E handle \in Handles, enable \in {0, 1} :
    /\ Step("SetConnectionEncryption", handle, kEmpty, enable, NoPacket,
            SetConnectionEncryption(ctl[Dev], handle, enable))
    /\ UNCHANGED log

NextSce ==
  \/ DoCreateConnection
  \/ ReceivePageResponse
  \/ DoLinkKeyRequestReply
  \/ DoLeLongTermKeyRequestReply
  \/ SetConnectionEncryptionEither
  \/ RunTask
  \/ AdvanceTime

SpecSce == Init /\ [][NextSce]_vars

\* The return value the precedence of the checks demands.
ExpectedEncryptionStatus(c, handle, enable) ==
  IF ~Connections_HasHandle(c, handle) THEN UNKNOWN_CONNECTION
  ELSE IF Connections_IsEncrypted(c, handle) /\ enable = 0
  THEN ENCRYPTION_MODE_NOT_ACCEPTABLE
  ELSE IF \A k \in c.security_manager_.keys :
            k.peer # Connections_GetAddress(c, handle).address
  THEN PIN_OR_KEY_MISSING
  ELSE SUCCESS

SetConnectionEncryptionAsSpecified ==
  call'.op = "SetConnectionEncryption" =>
    LET c == ctl[Dev]
        c2 == ctl'[Dev]
        expected == ExpectedEncryptionStatus(c, call'.handle, call'.arg)
    IN /\ c2.ret = expected
       /\ c2.hci = c.hci
       /\ c2.sent = c.sent
       /\ c2.connections_ = c.connections_
       /\ IF expected # SUCCESS
          THEN c2 = [c EXCEPT !.ret = expected]
          ELSE /\ Len(c2.tasks) = Len(c.tasks) + 1
               /\ \E k \in DOMAIN c2.tasks :
                    /\ c2.tasks[k].id = c.next_task_id
                    /\ c2.tasks[k].due = now + 5
                    /\ c2.tasks[k].cb.name = "HandleSetConnectionEncryption"
                    /\ c2.tasks[k].cb.handle = call'.handle
                    /\ c2.tasks[k].cb.arg = call'.arg

\* C19: SetConnectionEncryption(handle, enable) returns UNKNOWN_CONNECTION
\* for a dead handle, else ENCRYPTION_MODE_NOT_ACCEPTABLE if the connection
\* is encrypted and enable is 0, else PIN_OR_KEY_MISSING without a link key
\* for the peer, else SUCCESS with HandleSetConnectionEncryption scheduled
\* 5 ms later; an error schedules and emits nothing.
C19_EncryptionPrecedence == [][SetConnectionEncryptionAsSpecified]_vars

\* Encryption was refused on an encrypted connection whose peer has no key:
\* the mode check came before the key check.
C19_Witness ==
  /\ call.op = "SetConnectionEncryption"
  /\ Connections_HasHandle(call.pre, call.handle)
  /\ Connections_IsEncrypted(call.pre, call.handle)
  /\ call.arg = 0
  /\ call.pre.security_manager_.keys = {}
  /\ ctl[Dev].ret = ENCRYPTION_MODE_NOT_ACCEPTABLE


(***************************************************************************)
(* SpecReset: Reset with an inquiry running, advertising sets enabled, LE  *)
(* scanning on and an LE connect armed, and the timer ticks that follow.   *)
(***************************************************************************)
ResetTimeouts == {100, 200}

LoggedStep(op, arg, c2) ==
  /\ Step(op, kReservedHandle, kEmpty, arg, NoPacket, c2)
  /\ log' = LoggedArg(op, arg)

ResetStartInquiry ==
  \E timeout \in ResetTimeouts :
    LoggedStep("StartInquiry", timeout, StartInquiry(ctl[Dev], timeout))

ResetReset == LoggedStep("Reset", 0, Reset(ctl[Dev]))

\* The log keeps the calls that enable an advertising set.
ResetSetLeAdvertisingEnable ==
  \E enable \in {0, 1} :
    LET c2 == SetLeAdvertisingEnable(ctl[Dev], enable)
    IN /\ Step("SetLeAdvertisingEnable", kReservedHandle, kEmpty, enable,
               NoPacket, c2)
       /\ log' = IF enable = 1 /\ c2.ret = SUCCESS
                 THEN LoggedArg("EnableAdvertising", 0) ELSE log

ResetEnableExtendedSet ==
  LET c2 == SetLeExtendedAdvertisingEnable(ctl[Dev], TRUE,
              <<[advertising_handle_ |-> 1, duration_ |-> 0]>>, "none")
  IN /\ Step("SetLeExtendedAdvertisingEnable", kReservedHandle, kEmpty, 1,
             NoPacket, c2)
     /\ log' = LoggedArg("EnableAdvertising", 1)

ResetArmAndScan ==
  CmdArg("ArmLeConnect", 0,
         SetLeScanEnable(ArmLeConnect(ctl[Dev], AddrP1, PUBLIC_DEVICE_ADDRESS),
                         "LE_SET_SCAN_ENABLE"))

NextReset ==
  \/ ResetStartInquiry
  \/ ResetReset
  \/ ResetSetLeAdvertisingEnable
  \/ ResetEnableExtendedSet
  \/ ResetArmAndScan
  \/ DoTimerTick
  \/ RunTask
  \/ AdvanceTime

SpecReset == Init /\ [][NextReset]_vars

\* The last Reset, if none of the calls in ops has followed it; 0 otherwise.
LastResetBefore(ops) ==
  IF \E i \in DOMAIN log :
       log[i].op = "Reset" /\ \A j \in (i + 1)..Len(log) : log[j].op \notin ops
  THEN CHOOSE i \in DOMAIN log :
         /\ log[i].op = "Reset"
         /\ \A j \in (i + 1)..Len(log) : log[j].op \notin ops \cup {"Reset"}
  ELSE 0

\* The state Reset leaves.
ResetClears ==
  call'.op = "Reset" =>
    /\ ctl'[Dev].inquiry_timer_task_id_ = kInvalidTaskId
    /\ \A i \in DOMAIN ctl'[Dev].advertisers_ :
         ~ctl'[Dev].advertisers_[i].enabled_
    /\ ctl'[Dev].le_scan_enable_ = "NONE"
    /\ ~ctl'[Dev].le_connect_
    /\ ctl'[Dev].hci = ctl[Dev].hci
    /\ ctl'[Dev].sent = ctl[Dev].sent

\* No InquiryComplete between a Reset and the next StartInquiry.
NoCompleteAfterReset ==
  LastResetBefore({"StartInquiry"}) # 0 =>
    \A k \in DOMAIN ctl'[Dev].hci :
      k > Len(ctl[Dev].hci) => ctl'[Dev].hci[k].ev # "InquiryComplete"

\* No beacon is handed to the radio by a tick between a Reset and the next
\* call that enables advertising.
NoBeaconAfterReset ==
  (LastResetBefore({"EnableAdvertising"}) # 0 /\ call'.op = "TimerTick") =>
    /\ ctl'[Dev].tasks = ctl[Dev].tasks
    /\ ctl'[Dev].sent = ctl[Dev].sent

\* C20: after Reset no inquiry is active, every advertising set is disabled,
\* LE scanning is off and LE connect is disarmed; no InquiryComplete is
\* emitted until an inquiry is started again, and no advertisement beacon is
\* emitted on later TimerTicks until advertising is enabled again.
C20_ResetQuiets ==
  [][ResetClears /\ NoCompleteAfterReset /\ NoBeaconAfterReset]_vars

\* A tick after the Reset of a controller that was inquiring and
\* advertising.
C20_Witness ==
  /\ call.op = "TimerTick"
  /\ Len(log) = 3
  /\ {log[1].op, log[2].op} = {"StartInquiry", "EnableAdvertising"}
  /\ log[3].op = "Reset"
  /\ \A k \in DOMAIN ctl[Dev].tasks : ctl[Dev].tasks[k].cb.name # "InquiryTimeout"

\* The timeout of an inquiry that an earlier StartInquiry left behind has
\* run after a Reset.
StaleTimeoutAfterReset ==
  /\ call.op = "InquiryTimeout"
  /\ LastResetBefore({"StartInquiry"}) # 0

(***************************************************************************)
(* SpecAccept: a page-scanning controller whose host accepts or rejects    *)
(* connection requests, cancels its own, and whose peers reject its pages. *)
(***************************************************************************)
RejectReasons == {13, 15}

PageRejectPackets ==
  {Packet("PAGE_REJECT", p, AddrA, reason) : p \in Peers,
                                             reason \in RejectReasons}

InitAccept ==
  /\ now = 0
  /\ ctl = [d \in {Dev} |->
              SetPageScanEnable(NewController(DefaultProperties), TRUE)]
  /\ call = NoCall
  /\ inputs = MaxInputs
  /\ log = <<>>

ReceivePage == \E pkt \in PagePackets : Receive(pkt)

ReceivePageReject == \E pkt \in PageRejectPackets : Receive(pkt)

DoRejectConnectionRequest ==
  \E addr \in Peers, reason \in RejectReasons :
    /\ Step("RejectConnectionRequest", kReservedHandle, addr, reason, NoPacket,
            RejectConnectionRequest(ctl[Dev], addr, reason))
    /\ UNCHANGED log

DoCreateConnectionCancel ==
  \E addr \in Peers :
    Cmd("CreateConnectionCancel", kReservedHandle, addr,
        CreateConnectionCancel(ctl[Dev], addr))

NextAccept ==
  \/ ReceivePage
  \/ ReceivePageReject
  \/ DoAcceptConnectionRequest
  \/ DoRejectConnectionRequest
  \/ DoCreateConnection
  \/ DoCreateConnectionCancel
  \/ RunTask
  \/ AdvanceTime

SpecAccept == InitAccept /\ [][NextAccept]_vars

\* The tasks the callback that has just run handed to the scheduler.
TasksAddedByRun ==
  LET rest == RemoveAt(ctl[Dev].tasks, Scheduler_Next(ctl[Dev]))
  IN SubSeq(ctl'[Dev].tasks, Len(rest) + 1, Len(ctl'[Dev].tasks))

\* The step ran a task at its due time, `delay` after it was scheduled.
RanAtDue == ctl[Dev].tasks[Scheduler_Next(ctl[Dev])].due = now'

\* The answer of Accept/RejectConnectionRequest and the task it schedules.
AnswersPending(op, callback) ==
  call'.op = op =>
    IF Connections_HasPendingConnection(ctl[Dev], call'.addr)
    THEN /\ ctl'[Dev].ret = SUCCESS
         /\ Len(NewTasks(ctl[Dev], ctl'[Dev])) = 1
         /\ NewTasks(ctl[Dev], ctl'[Dev])[1].due = now + 200
         /\ NewTasks(ctl[Dev], ctl'[Dev])[1].cb.name = callback
         /\ NewTasks(ctl[Dev], ctl'[Dev])[1].cb.addr = call'.addr
         /\ ctl'[Dev].hci = ctl[Dev].hci
         /\ ctl'[Dev].sent = ctl[Dev].sent
    ELSE ctl'[Dev] = Return(ctl[Dev], UNKNOWN_CONNECTION)

\* Exactly this packet was handed to the BR/EDR link layer, to leave 50 ms
\* later.
HandedOver(type, addr, arg) ==
  /\ Len(TasksAddedByRun) = 1
  /\ TasksAddedByRun[1].due = now' + 50
  /\ TasksAddedByRun[1].cb =
       SendCallback(Packet(type, AddrA, addr, arg), "BR_EDR")

\* The accepted request completes: PageResponse, a new handle for addr and
\* ConnectionComplete(SUCCESS, handle, addr).
AcceptCompletes ==
  /\ RanAtDue
  /\ HandedOver("PAGE_RESPONSE", call'.addr, 0)
  /\ \E handle \in Handles :
       /\ ~Connections_HasHandle(ctl[Dev], handle)
       /\ Live(ctl'[Dev]) = Live(ctl[Dev]) \cup {handle}
       /\ Connections_GetAddress(ctl'[Dev], handle).address = call'.addr
       /\ NewEvents(ctl[Dev], ctl'[Dev]) =
            <<[ev |-> "ConnectionComplete", status |-> SUCCESS,
               handle |-> handle, addr |-> call'.addr, arg |-> 0,
               t |-> now']>>

\* C21: AcceptConnectionRequest(addr) returns UNKNOWN_CONNECTION and schedules
\* nothing without a pending connection for addr; otherwise it returns
\* SUCCESS and 200 ms later, for every accepted request, a PageResponse to
\* addr is emitted, a handle for addr is created and the host sees
\* ConnectionComplete(SUCCESS, handle, addr).
C21_EveryAcceptCompletes ==
  [][/\ AnswersPending("AcceptConnectionRequest", "MakeSlaveConnection")
     /\ call'.op = "MakeSlaveConnection" => AcceptCompletes]_vars

\* What the code does: the accepted request completes when the pending
\* connection is still there 200 ms later; when it is gone the PageResponse
\* is sent all the same, without a handle and without an event.
AcceptCompletesWhilePending ==
  [][/\ AnswersPending("AcceptConnectionRequest", "MakeSlaveConnection")
     /\ call'.op = "MakeSlaveConnection" =>
          IF Connections_HasPendingConnection(ctl[Dev], call'.addr)
          THEN AcceptCompletes
          ELSE /\ HandedOver("PAGE_RESPONSE", call'.addr, 0)
               /\ ctl'[Dev].hci = ctl[Dev].hci
               /\ Live(ctl'[Dev]) = Live(ctl[Dev])]_vars

\* An accepted request whose pending connection is gone when the 200 ms are
\* over.
AcceptedWithoutPending ==
  /\ call.op = "MakeSlaveConnection"
  /\ ~Connections_HasPendingConnection(call.pre, call.addr)

\* An accepted request has completed.
AcceptedAndCompleted ==
  /\ call.op = "MakeSlaveConnection"
  /\ Connections_HasPendingConnection(call.pre, call.addr)
  /\ now = 200

\* The reason captured by the task that has just run.
ReasonOfRun == ctl[Dev].tasks[Scheduler_Next(ctl[Dev])].cb.arg

\* ConnectionComplete with this status and the handle 0x0EFF is the one new
\* event, and no connection was created.
FailedComplete(status, addr) ==
  /\ NewEvents(ctl[Dev], ctl'[Dev]) =
       <<[ev |-> "ConnectionComplete", status |-> status, handle |-> 3839,
          addr |-> addr, arg |-> 0, t |-> now']>>
  /\ ctl'[Dev].connections_.acl_connections_ =
       ctl[Dev].connections_.acl_connections_

RejectAsSpecified ==
  /\ AnswersPending("RejectConnectionRequest", "RejectSlaveConnection")
  /\ (call'.op = "RejectConnectionRequest" /\ ctl'[Dev].ret = SUCCESS) =>
       NewTasks(ctl[Dev], ctl'[Dev])[1].cb.arg = call'.arg
  /\ call'.op = "RejectSlaveConnection" =>
       /\ RanAtDue
       /\ HandedOver("PAGE_REJECT", call'.addr, ReasonOfRun)
       /\ FailedComplete(ReasonOfRun, call'.addr)
  /\ (call'.op = "IncomingPacket" /\ call'.pkt.type = "PAGE_REJECT") =>
       /\ FailedComplete(call'.pkt.arg, call'.pkt.src)
       /\ ctl'[Dev].tasks = ctl[Dev].tasks

\* C22: RejectConnectionRequest(addr, reason) returns UNKNOWN_CONNECTION and
\* schedules nothing without a pending connection for addr; otherwise it
\* returns SUCCESS and 200 ms later a PageReject carrying reason goes to addr
\* and the host sees ConnectionComplete(reason, 0x0EFF), with no handle
\* created; an initiator that receives a PageReject reports
\* ConnectionComplete with the packet's reason and handle 0x0EFF.
C22_RejectCompletes == [][RejectAsSpecified]_vars

\* A rejected request has run its course: the host has seen the reason.
C22_Witness ==
  /\ call.op = "RejectSlaveConnection"
  /\ now = 200
  /\ ctl[Dev].hci[Len(ctl[Dev].hci)].ev = "ConnectionComplete"
  /\ ctl[Dev].hci[Len(ctl[Dev].hci)].status = 15
  /\ ctl[Dev].hci[Len(ctl[Dev].hci)].handle = 3839

\* A PageReject has reached the controller that paged the peer.
PageRejectReachedInitiator ==
  /\ call.op = "IncomingPacket"
  /\ call.pkt.type = "PAGE_REJECT"
  /\ Connections_HasPendingConnection(call.pre, call.pkt.src)
  /\ ctl[Dev].hci[Len(ctl[Dev].hci)].status = call.pkt.arg

(***************************************************************************)
(* SpecGate: the host switches the scan modes while inquiries, pages, LE   *)
(* advertisements and LE scan responses arrive.                            *)
(***************************************************************************)
ScanOpcodes == {"NONE", "LE_SET_SCAN_ENABLE", "LE_SET_EXTENDED_SCAN_ENABLE"}

GateSetInquiryScanEnable ==
  \E enable \in BOOLEAN :
    Cmd("SetInquiryScanEnable", kReservedHandle, kEmpty,
        SetInquiryScanEnable(ctl[Dev], enable))

GateSetPageScanEnable ==
  \E enable \in BOOLEAN :
    Cmd("SetPageScanEnable", kReservedHandle, kEmpty,
        SetPageScanEnable(ctl[Dev], enable))

GateSetLeScanEnable ==
  \E opcode \in ScanOpcodes :
    Cmd("SetLeScanEnable", kReservedHandle, kEmpty,
        SetLeScanEnable(ctl[Dev], opcode))

GateSetLeScanType ==
  \E type \in {0, 1} :
    CmdArg("SetLeScanType", type, SetLeScanType(ctl[Dev], type))

GateArmLeConnect ==
  Cmd("ArmLeConnect", kReservedHandle, AddrP1,
      ArmLeConnect(ctl[Dev], AddrP1, PUBLIC_DEVICE_ADDRESS))

LeAdvertisementFromP1(type, advertisement_type) ==
  Packet(type, AddrP1, AddrA,
         [address_type |-> PUBLIC_DEVICE_ADDRESS,
          advertisement_type |-> advertisement_type, data |-> <<>>])

ReceiveGated ==
  \/ Receive(Packet("INQUIRY", AddrP1, AddrA, "STANDARD"))
  \/ Receive(Packet("PAGE", AddrP1, AddrA, 7))
  \/ Receive(LeAdvertisementFromP1("LE_ADVERTISEMENT", "ADV_IND"))
  \/ Receive(LeAdvertisementFromP1("LE_SCAN_RESPONSE", "SCAN_RESPONSE"))

NextGate ==
  \/ GateSetInquiryScanEnable
  \/ GateSetPageScanEnable
  \/ GateSetLeScanEnable
  \/ GateSetLeScanType
  \/ GateArmLeConnect
  \/ ReceiveGated
  \/ RunTask
  \/ AdvanceTime

SpecGate == Init /\ [][NextGate]_vars

\* The step's new events are advertising reports about the packet's source,
\* at least one.
ReportsSource ==
  /\ NewEvents(ctl[Dev], ctl'[Dev]) # <<>>
  /\ \A k \in DOMAIN NewEvents(ctl[Dev], ctl'[Dev]) :
       /\ NewEvents(ctl[Dev], ctl'[Dev])[k].ev \in
            {"LeMetaEvent:AdvertisingReport",
             "LeMetaEvent:ExtendedAdvertisingReport"}
       /\ NewEvents(ctl[Dev], ctl'[Dev])[k].addr = call'.pkt.src

Untouched == ctl'[Dev] = ctl[Dev]

InquiryGated ==
  IF ctl[Dev].inquiry_scans_enabled_
  THEN /\ Len(NewTasks(ctl[Dev], ctl'[Dev])) = 1
       /\ NewTasks(ctl[Dev], ctl'[Dev])[1].cb.pkt.type = "INQUIRY_RESPONSE"
       /\ NewTasks(ctl[Dev], ctl'[Dev])[1].cb.pkt.dst = call'.pkt.src
  ELSE Untouched

PageGated ==
  IF ctl[Dev].page_scans_enabled_
  THEN /\ Len(NewEvents(ctl[Dev], ctl'[Dev])) = 1
       /\ NewEvents(ctl[Dev], ctl'[Dev])[1].ev = "ConnectionRequest"
       /\ NewEvents(ctl[Dev], ctl'[Dev])[1].addr = call'.pkt.src
       /\ Connections_HasPendingConnection(ctl'[Dev], call'.pkt.src)
  ELSE Untouched

LeAdvertisementGated ==
  IF ctl[Dev].le_scan_enable_ # "NONE" \/ ctl[Dev].le_connect_
  THEN /\ ctl[Dev].le_scan_enable_ # "NONE" => ReportsSource
       /\ ctl[Dev].le_connect_ =>
            /\ Connections_HasPendingLeConnection(ctl'[Dev],
                 AddressWithType(call'.pkt.src, PUBLIC_DEVICE_ADDRESS))
            /\ \E k \in DOMAIN NewTasks(ctl[Dev], ctl'[Dev]) :
                 NewTasks(ctl[Dev], ctl'[Dev])[k].cb.pkt.type = "LE_CONNECT"
  ELSE Untouched

LeScanResponseGated ==
  IF ctl[Dev].le_scan_enable_ # "NONE" /\ ctl[Dev].le_scan_type_ = 1
  THEN ReportsSource /\ ctl'[Dev].tasks = ctl[Dev].tasks
  ELSE Untouched

GatingAsSpecified ==
  call'.op = "IncomingPacket" =>
    /\ call'.pkt.type = "INQUIRY" => InquiryGated
    /\ call'.pkt.type = "PAGE" => PageGated
    /\ call'.pkt.type = "LE_ADVERTISEMENT" => LeAdvertisementGated
    /\ call'.pkt.type = "LE_SCAN_RESPONSE" => LeScanResponseGated

\* C23: an Inquiry is answered only while inquiry scan is enabled, a Page
\* gives a pending connection and a ConnectionRequest only while page scan is
\* enabled, an LE advertisement is handled only while LE scan is enabled or
\* an LE connect is armed, an LE scan response is reported only while LE scan
\* is enabled with active scan type; otherwise the packet changes nothing.
C23_ModeGating == [][GatingAsSpecified]_vars

\* A scan response was reported after the host enabled active scanning.
C23_Witness ==
  /\ call.op = "IncomingPacket"
  /\ call.pkt.type = "LE_SCAN_RESPONSE"
  /\ call.pre.le_scan_enable_ # "NONE"
  /\ call.pre.le_scan_type_ = 1
  /\ Len(ctl[Dev].hci) = 1
  /\ inputs = 0

\* A page arrived with page scan off.
PageGatedOff ==
  /\ call.op = "IncomingPacket"
  /\ call.pkt.type = "PAGE"
  /\ ~call.pre.page_scans_enabled_
  /\ ctl[Dev] = call.pre

(***************************************************************************)
(* SpecVersion: A and B connect and A's host reads B's version.            *)
(***************************************************************************)
LinkReadRemoteVersion ==
  \E handle \in Handles :
    LET c2 == SendCommandToRemoteByHandle(ctl["A"],
                "READ_REMOTE_VERSION_INFORMATION", 0, handle)
    IN /\ LinkStep("A", "ReadRemoteVersionInformation", handle, kEmpty, 0, c2)
       /\ log' = Logged("ReadRemoteVersionInformation", handle, c2.ret)

NextVersion ==
  \/ LinkCreateConnection
  \/ LinkSetPageScanEnable
  \/ LinkAcceptConnectionRequest
  \/ LinkReadRemoteVersion
  \/ \E d \in Devices : LinkRunTask(d)
  \/ \E d \in Devices : Deliver(d)
  \/ LinkAdvanceTime

SpecVersion == InitLink /\ [][NextVersion]_vars

\* The schedulers run every task that is due, the medium delivers every
\* packet, and time does not stop.
FairSpecVersion ==
  /\ SpecVersion
  /\ \A d \in Devices : WF_vars(LinkRunTask(d)) /\ WF_vars(Deliver(d))
  /\ WF_vars(LinkAdvanceTime)

\* The type of the one packet the controller hands to the link layer when a
\* version request arrives.
VersionRequestAnsweredWith(type) ==
  (call'.op = "IncomingPacket"
   /\ call'.pkt.type = "READ_REMOTE_VERSION_INFORMATION") =>
    LET pre == call'.pre
        post == ctl'[IF pre.properties_.address = AddrA THEN "A" ELSE "B"]
    IN /\ Len(NewTasks(pre, post)) = 1
       /\ NewTasks(pre, post)[1].cb.pkt.type = type
       /\ NewTasks(pre, post)[1].cb.pkt.dst = call'.pkt.src

\* A's host read the version on this live handle.
VersionRead(handle) ==
  \E i \in DOMAIN log :
    /\ log[i].op = "ReadRemoteVersionInformation"
    /\ log[i].handle = handle
    /\ log[i].ret = SUCCESS

VersionComplete(handle) ==
  \E k \in DOMAIN ctl["A"].hci :
    /\ ctl["A"].hci[k].ev = "ReadRemoteVersionInformationComplete"
    /\ ctl["A"].hci[k].status = SUCCESS
    /\ ctl["A"].hci[k].handle = handle

\* C24: an incoming ReadRemoteVersionInformation request is answered with a
\* ReadRemoteVersionInformationResponse, so that a host that read the remote
\* version on a live connection eventually receives
\* ReadRemoteVersionInformationComplete(SUCCESS) for that handle.
C24_VersionRequestAnswered ==
  /\ [][VersionRequestAnsweredWith(
          "READ_REMOTE_VERSION_INFORMATION_RESPONSE")]_vars
  /\ \A handle \in Handles : VersionRead(handle) ~> VersionComplete(handle)

\* What the code does: the request is answered with a supported-features
\* response, and the host never sees a version complete.
VersionAnsweredWithFeatures ==
  /\ [][VersionRequestAnsweredWith(
          "READ_REMOTE_SUPPORTED_FEATURES_RESPONSE")]_vars
  /\ [](\A handle \in Handles : ~VersionComplete(handle))

\* A's host has the answer to its version request: a supported-features
\* complete.
FeaturesCompleteForVersionRead ==
  /\ \E handle \in Handles : VersionRead(handle)
  /\ \E k \in DOMAIN ctl["A"].hci :
       ctl["A"].hci[k].ev = "ReadRemoteSupportedFeaturesComplete"

(***************************************************************************)
(* SpecLists: the host fills and empties the LE connect list and the LE    *)
(* resolving list.                                                         *)
(***************************************************************************)
Irks == {1, 2}

DoLeConnectListAddDevice ==
  \E addr \in Peers :
    Cmd("LeConnectListAddDevice", kReservedHandle, addr,
        LeConnectListAddDevice(ctl[Dev], addr, PUBLIC_DEVICE_ADDRESS))

DoLeResolvingListAddDevice ==
  \E addr \in Peers, irk \in Irks :
    \E c2 \in LeResolvingListAddDevice(ctl[Dev], addr, PUBLIC_DEVICE_ADDRESS,
                                       irk, irk) :
      /\ Step("LeResolvingListAddDevice", kReservedHandle, addr, irk,
              NoPacket, c2)
      /\ UNCHANGED log

DoLeResolvingListRemoveDevice ==
  \E addr \in Peers :
    \E c2 \in LeResolvingListRemoveDevice(ctl[Dev], addr,
                                          PUBLIC_DEVICE_ADDRESS) :
      Cmd("LeResolvingListRemoveDevice", kReservedHandle, addr, c2)

InitLists == InitWith(DefaultProperties, MaxListInputs)

NextLists ==
  \/ DoLeConnectListAddDevice
  \/ DoLeResolvingListAddDevice
  \/ DoLeResolvingListRemoveDevice

SpecLists == InitLists /\ [][NextLists]_vars

\* Whether the resolving list itself holds an entry for (addr, addr_type).
InResolvingList(c, addr, addr_type) ==
  \E i \in 1..Len(c.le_resolving_list_) :
    /\ c.le_resolving_list_[i][1] = addr
    /\ c.le_resolving_list_[i][2] = addr_type

ResolvingListAsSpecified ==
  /\ call'.op = "LeResolvingListAddDevice" =>
       /\ ~ctl'[Dev].aborted
       /\ InResolvingList(ctl'[Dev], call'.addr, PUBLIC_DEVICE_ADDRESS)
       /\ LeResolvingListContainsDevice(ctl'[Dev], call'.addr,
                                        PUBLIC_DEVICE_ADDRESS)
  /\ call'.op = "LeResolvingListRemoveDevice" =>
       /\ ~ctl'[Dev].aborted
       /\ ctl'[Dev].le_resolving_list_ =
            SelectSeq(ctl[Dev].le_resolving_list_,
                      LAMBDA e : ~(e[1] = call'.addr
                                   /\ e[2] = PUBLIC_DEVICE_ADDRESS))

\* C25: the resolving-list operations act on the resolving list, whatever
\* the connect list holds: after LeResolvingListAddDevice(a, t)
\* LeResolvingListContainsDevice(a, t) is true, and
\* LeResolvingListRemoveDevice(a, t) removes exactly the resolving-list entry
\* for (a, t) without an access outside the resolving list.
C25_ResolvingListOwnIndex == [][ResolvingListAsSpecified]_vars

\* What the code does: membership in the resolving list is answered from the
\* connect list, and with an empty connect list removal changes nothing.
ResolvingListFollowsConnectList ==
  /\ \A addr \in Peers :
       LeResolvingListContainsDevice(ctl[Dev], addr, PUBLIC_DEVICE_ADDRESS)
         = LeConnectListContainsDevice(ctl[Dev], addr, PUBLIC_DEVICE_ADDRESS)
  /\ (call.op = "LeResolvingListRemoveDevice"
      /\ call.pre.le_connect_list_ = <<>>) =>
       ctl[Dev].le_resolving_list_ = call.pre.le_resolving_list_

\* A device was added to the resolving list and the resolving list is said
\* not to contain it.
AddedButNotContained ==
  /\ call.op = "LeResolvingListAddDevice"
  /\ InResolvingList(ctl[Dev], call.addr, PUBLIC_DEVICE_ADDRESS)
  /\ ~LeResolvingListContainsDevice(ctl[Dev], call.addr, PUBLIC_DEVICE_ADDRESS)

\* Removal indexed the resolving list past its end.
RemovedOutOfRange ==
  /\ call.op = "LeResolvingListRemoveDevice"
  /\ ctl[Dev].aborted

(***************************************************************************)
(* SpecSched: ScheduleTask and CancelScheduledTask on a controller whose   *)
(* harness registers, or has not registered, a scheduler and a cancel      *)
(* function.                                                               *)
(***************************************************************************)
SchedDelays == {1, 50}

MaxTaskId == 3

SchedPacket == Packet("PAGE", AddrA, AddrP1, 1)

\* As constructed: nothing is registered.
InitSched ==
  /\ now = 0
  /\ ctl = [d \in {Dev} |->
              RegisterTaskCancel(
                RegisterTaskScheduler(NewController(DefaultProperties), FALSE),
                FALSE)]
  /\ call = NoCall
  /\ inputs = MaxInputs
  /\ log = <<>>

DoRegisterTaskScheduler ==
  \E registered \in BOOLEAN :
    Cmd("RegisterTaskScheduler", kReservedHandle, kEmpty,
        RegisterTaskScheduler(ctl[Dev], registered))

DoRegisterTaskCancel ==
  \E registered \in BOOLEAN :
    Cmd("RegisterTaskCancel", kReservedHandle, kEmpty,
        RegisterTaskCancel(ctl[Dev], registered))

\* ScheduleTask with a callback that sends a packet or one that emits an
\* event; ret is the task id it returns.
DoScheduleTask ==
  \E delay \in SchedDelays :
    \/ /\ Step("ScheduleTask", kReservedHandle, kEmpty, delay, SchedPacket,
               Return(ScheduleTask(ctl[Dev], delay,
                                   SendCallback(SchedPacket, "BR_EDR")),
                      ScheduleTask_ret(ctl[Dev])))
       /\ UNCHANGED log
    \/ /\ Step("ScheduleTask", kReservedHandle, AddrP1, delay, NoPacket,
               Return(ScheduleTask(ctl[Dev], delay,
                                   EventCallback("InquiryComplete", SUCCESS,
                                                 kReservedHandle, AddrP1, 0)),
                      ScheduleTask_ret(ctl[Dev])))
       /\ UNCHANGED log

DoCancelScheduledTask ==
  \E task_id \in 1..MaxTaskId :
    CmdArg("CancelScheduledTask", task_id,
           CancelScheduledTask(ctl[Dev], task_id))

NextSched ==
  \/ DoRegisterTaskScheduler
  \/ DoRegisterTaskCancel
  \/ DoScheduleTask
  \/ DoCancelScheduledTask
  \/ RunTask
  \/ AdvanceTime

SpecSched == InitSched /\ [][NextSched]_vars

\* The callback handed to ScheduleTask has run during the call.
CallbackRanNow ==
  IF call'.pkt # NoPacket
  THEN /\ ctl'[Dev].sent =
            Append(ctl[Dev].sent,
                   [pkt |-> call'.pkt, phy |-> "BR_EDR", t |-> now])
       /\ ctl'[Dev].hci = ctl[Dev].hci
  ELSE /\ Len(NewEvents(ctl[Dev], ctl'[Dev])) = 1
       /\ NewEvents(ctl[Dev], ctl'[Dev])[1].ev = "InquiryComplete"
       /\ ctl'[Dev].sent = ctl[Dev].sent

ScheduleTaskAsSpecified ==
  call'.op = "ScheduleTask" =>
    IF ctl[Dev].schedule_task_
    THEN /\ Len(NewTasks(ctl[Dev], ctl'[Dev])) = 1
         /\ NewTasks(ctl[Dev], ctl'[Dev])[1].due = now + call'.arg
         /\ NewTasks(ctl[Dev], ctl'[Dev])[1].id = ctl'[Dev].ret
         /\ ctl'[Dev].ret # 0
         /\ ctl'[Dev].hci = ctl[Dev].hci
         /\ ctl'[Dev].sent = ctl[Dev].sent
    ELSE /\ ctl'[Dev].ret = 0
         /\ ctl'[Dev].tasks = ctl[Dev].tasks
         /\ CallbackRanNow

CancelAsSpecified ==
  call'.op = "CancelScheduledTask" =>
    IF ctl[Dev].schedule_task_ /\ ctl[Dev].cancel_task_
    THEN /\ ctl'[Dev].tasks =
              SelectSeq(ctl[Dev].tasks, LAMBDA k : k.id # call'.arg)
         /\ ctl'[Dev].hci = ctl[Dev].hci
         /\ ctl'[Dev].sent = ctl[Dev].sent
    ELSE ctl'[Dev] = ctl[Dev]

\* C26: without a registered scheduler ScheduleTask runs the callback before
\* it returns and returns the reserved id 0; with one it only delegates and
\* does not run the callback; CancelScheduledTask does nothing unless both a
\* scheduler and a cancel function are registered.
C26_ScheduleWithoutScheduler ==
  [][ScheduleTaskAsSpecified /\ CancelAsSpecified]_vars

\* ScheduleTask was called with no scheduler registered, after a call with a
\* scheduler whose task is still pending.
C26_Witness ==
  /\ call.op = "ScheduleTask"
  /\ ~call.pre.schedule_task_
  /\ ctl[Dev].ret = 0
  /\ Len(ctl[Dev].tasks) = 1
  /\ Len(ctl[Dev].sent) + Len(ctl[Dev].hci) = 1

\* A cancel without a cancel function left a pending task with that id in
\* place.
CancelWithoutCancelFunction ==
  /\ call.op = "CancelScheduledTask"
  /\ call.pre.schedule_task_
  /\ ~call.pre.cancel_task_
  /\ \E k \in DOMAIN ctl[Dev].tasks : ctl[Dev].tasks[k].id = call.arg

(***************************************************************************)
(* SpecDisc: connections to two peers, torn down by the peers' Disconnect  *)
(* packets (with different reasons) or by the local host.                  *)
(***************************************************************************)
DisconnectReasons == {REMOTE_USER_TERMINATED_CONNECTION, 21}

ReceiveDisconnectWithReason ==
  \E p \in Peers, reason \in DisconnectReasons :
    Receive(Packet("DISCONNECT", p, AddrA, reason))

NextDisc ==
  \/ DoCreateConnection
  \/ ReceivePageResponse
  \/ ReceiveDisconnectWithReason
  \/ DoDisconnect
  \/ RunTask
  \/ AdvanceTime

SpecDisc == Init /\ [][NextDisc]_vars

IncomingDisconnectAsSpecified ==
  (call'.op = "IncomingPacket" /\ call'.pkt.type = "DISCONNECT") =>
    LET handle == Connections_GetHandleOnlyAddress(ctl[Dev], call'.pkt.src)
    IN IF handle = kReservedHandle
       THEN ctl'[Dev] = ctl[Dev]
       ELSE /\ Live(ctl'[Dev]) = Live(ctl[Dev]) \ {handle}
            /\ ctl'[Dev].hci = ctl[Dev].hci
            /\ ctl'[Dev].sent = ctl[Dev].sent
            /\ NewTasks(ctl[Dev], ctl'[Dev]) =
                 <<[id |-> ctl[Dev].next_task_id, due |-> now + 20,
                    cb |-> Callback("DisconnectCleanup", handle, kEmpty,
                                    call'.pkt.arg)]>>

CleanupAsSpecified ==
  call'.op = "DisconnectCleanup" =>
    /\ RanAtDue
    /\ TasksAddedByRun = <<>>
    /\ NewEvents(ctl[Dev], ctl'[Dev]) =
         <<[ev |-> "DisconnectionComplete", status |-> SUCCESS,
            handle |-> call'.handle, addr |-> kEmpty, arg |-> ReasonOfRun,
            t |-> now']>>

OneDisconnectionCompletePerHandle ==
  \A handle \in Handles :
    Cardinality(EventsFor(ctl'[Dev], "DisconnectionComplete", handle)) <= 1

\* C28: a Disconnect packet from a peer with a live connection removes the
\* connection record at once and, 20 ms later, gives exactly one
\* DisconnectionComplete(SUCCESS, handle, reason) with the reason the packet
\* carried; a Disconnect from a peer without a live connection gives nothing.
C28_IncomingDisconnect ==
  [][/\ IncomingDisconnectAsSpecified
     /\ CleanupAsSpecified
     /\ OneDisconnectionCompletePerHandle]_vars

\* The cleanup of a peer's Disconnect with reason 21 has run.
C28_Witness ==
  /\ call.op = "DisconnectCleanup"
  /\ ctl[Dev].hci[Len(ctl[Dev].hci)].ev = "DisconnectionComplete"
  /\ ctl[Dev].hci[Len(ctl[Dev].hci)].arg = 21
  /\ ~Connections_HasHandle(ctl[Dev], call.handle)
  /\ \E k \in DOMAIN ctl[Dev].hci :
       /\ ctl[Dev].hci[k].ev = "ConnectionComplete"
       /\ ctl[Dev].hci[k].handle = call.handle
       /\ ctl[Dev].hci[k].t + 20 = now

\* A Disconnect arrived from a peer without a live connection.
DisconnectFromStranger ==
  /\ call.op = "IncomingPacket"
  /\ call.pkt.type = "DISCONNECT"
  /\ Live(call.pre) # {}
  /\ Connections_GetHandleOnlyAddress(call.pre, call.pkt.src) = kReservedHandle

(***************************************************************************)
(* SpecSend: the host sends ACL data on BR/EDR and LE connections, on dead *)
(* handles, and on connections it disconnects right after.                 *)
(***************************************************************************)
NextSend ==
  \/ DoCreateConnection
  \/ ReceivePageResponse
  \/ DoSetLeAdvertisingEnable
  \/ ReceiveLeConnect
  \/ DoSendAclToRemote
  \/ DoDisconnect
  \/ RunTask
  \/ AdvanceTime

SpecSend == Init /\ [][NextSend]_vars

\* How many entries of the sequence s satisfy Test.
CountIn(s, Test(_)) == Cardinality({k \in DOMAIN s : Test(s[k])})

IsCompletedEvent(e) == e.ev = "NumberOfCompletedPackets"

IsCompletedTask(task) == task.cb.name = "NumberOfCompletedPackets"

IsAclSent(e) == e.pkt.type = "ACL"

IsAclTask(task) == task.cb.name = "send_to_remote_" /\ task.cb.pkt.type = "ACL"

SendAclAsSpecified ==
  call'.op = "SendAclToRemote" =>
    IF ~Connections_HasHandle(ctl[Dev], call'.handle)
    THEN ctl'[Dev] = Return(ctl[Dev], UNKNOWN_CONNECTION)
    ELSE
      LET added == NewTasks(ctl[Dev], ctl'[Dev])
      IN /\ ctl'[Dev].ret = SUCCESS
         /\ ctl'[Dev].hci = ctl[Dev].hci
         /\ ctl'[Dev].sent = ctl[Dev].sent
         /\ Len(added) = 2
         /\ added[1].due = now + 1
         /\ added[1].cb = Callback("NumberOfCompletedPackets", call'.handle,
                                   kEmpty, 1)
         /\ added[2].due = now + 50
         /\ added[2].cb.name = "send_to_remote_"
         /\ added[2].cb.arg = Connections_GetPhyType(ctl[Dev], call'.handle)
         /\ added[2].cb.pkt.type = "ACL"
         /\ added[2].cb.pkt.src =
              Connections_GetOwnAddress(ctl[Dev], call'.handle).address
         /\ added[2].cb.pkt.dst =
              Connections_GetAddress(ctl[Dev], call'.handle).address

CompletedAndSentAsScheduled ==
  /\ call'.op = "NumberOfCompletedPackets" =>
       /\ RanAtDue
       /\ TasksAddedByRun = <<>>
       /\ ctl'[Dev].sent = ctl[Dev].sent
       /\ NewEvents(ctl[Dev], ctl'[Dev]) =
            <<[ev |-> "NumberOfCompletedPackets", status |-> SUCCESS,
               handle |-> call'.handle, addr |-> kEmpty, arg |-> 1,
               t |-> now']>>
  /\ (call'.op = "send_to_remote_" /\ call'.pkt.type = "ACL") =>
       /\ RanAtDue
       /\ TasksAddedByRun = <<>>
       /\ ctl'[Dev].hci = ctl[Dev].hci
       /\ ctl'[Dev].sent =
            Append(ctl[Dev].sent,
                   [pkt |-> call'.pkt,
                    phy |-> ctl[Dev].tasks[Scheduler_Next(ctl[Dev])].cb.arg,
                    t |-> now'])

\* One event and one packet per successful call, the event first.
CompletedBeforeSent ==
  /\ CountIn(ctl'[Dev].hci, IsCompletedEvent)
       + CountIn(ctl'[Dev].tasks, IsCompletedTask)
     = CountIn(ctl'[Dev].sent, IsAclSent)
       + CountIn(ctl'[Dev].tasks, IsAclTask)
  /\ CountIn(ctl'[Dev].hci, IsCompletedEvent)
       >= CountIn(ctl'[Dev].sent, IsAclSent)
  /\ (call'.op = "SendAclToRemote" /\ ctl'[Dev].ret # SUCCESS) =>
       ctl'[Dev].tasks = ctl[Dev].tasks

\* C29: every SendAclToRemote that returns SUCCESS gives exactly one
\* NumberOfCompletedPackets(handle, 1) 1 ms later and exactly one Acl packet
\* 50 ms later on the connection's own phy, from the connection's own address
\* to its peer address; the event comes before the packet.
C29_SendAclCompletes ==
  [][SendAclAsSpecified /\ CompletedAndSentAsScheduled
     /\ CompletedBeforeSent]_vars

\* An Acl packet has left on the LE phy, after its NumberOfCompletedPackets.
C29_Witness ==
  /\ call.op = "send_to_remote_"
  /\ call.pkt.type = "ACL"
  /\ ctl[Dev].sent[Len(ctl[Dev].sent)].phy = "LOW_ENERGY"
  /\ ctl[Dev].sent[Len(ctl[Dev].sent)].t = 50
  /\ \E k \in DOMAIN ctl[Dev].hci :
       /\ ctl[Dev].hci[k].ev = "NumberOfCompletedPackets"
       /\ ctl[Dev].hci[k].t = 1

\* An Acl packet has left on the BR/EDR phy.
AclSentOnBrEdr ==
  /\ call.op = "send_to_remote_"
  /\ call.pkt.type = "ACL"
  /\ ctl[Dev].sent[Len(ctl[Dev].sent)].phy = "BR_EDR"

(***************************************************************************)
(* SpecPageResp: a controller with or without authentication enabled pages *)
(* its peers and receives their PageResponses, expected or not.            *)
(***************************************************************************)
InitPageResp ==
  \E authentication_enable \in {0, 1} :
    InitWith([DefaultProperties EXCEPT
                !.authentication_enable = authentication_enable], MaxInputs)

NextPageResp ==
  \/ DoCreateConnection
  \/ DoCreateConnectionCancel
  \/ ReceivePageResponse
  \/ RunTask
  \/ AdvanceTime

SpecPageResp == InitPageResp /\ [][NextPageResp]_vars

\* The pending connection for addr was created with the authenticate flag.
AuthenticateOnCompletion(c, addr) ==
  \E p \in c.connections_.pending_connections_ :
    p.address = addr /\ p.authenticate

\* A PageResponse for a pending connection: handle, ConnectionComplete and,
\* exactly when the flag was set, HandleAuthenticationRequest 5 ms later.
ExpectedPageResponse ==
  LET peer == call'.pkt.src
      added == NewTasks(ctl[Dev], ctl'[Dev])
  IN \E handle \in Handles :
       /\ ~Connections_HasHandle(ctl[Dev], handle)
       /\ Live(ctl'[Dev]) = Live(ctl[Dev]) \cup {handle}
       /\ Connections_GetAddress(ctl'[Dev], handle).address = peer
       /\ NewEvents(ctl[Dev], ctl'[Dev]) =
            <<[ev |-> "ConnectionComplete", status |-> SUCCESS,
               handle |-> handle, addr |-> peer, arg |-> 0, t |-> now]>>
       /\ IF AuthenticateOnCompletion(ctl[Dev], peer)
          THEN added = <<[id |-> ctl[Dev].next_task_id, due |-> now + 5,
                          cb |-> Callback("HandleAuthenticationRequest",
                                          handle, peer, 0)]>>
          ELSE added = <<>>

\* A PageResponse nobody waits for: no event, no handle, no task; the
\* pending connections are `pending` afterwards.
UnexpectedPageResponse(pending) ==
  /\ ctl'[Dev].hci = ctl[Dev].hci
  /\ Live(ctl'[Dev]) = Live(ctl[Dev])
  /\ ctl'[Dev].tasks = ctl[Dev].tasks
  /\ ctl'[Dev].connections_.pending_connections_ = pending

PageResponseLeaving(pending) ==
  (call'.op = "IncomingPacket" /\ call'.pkt.type = "PAGE_RESPONSE") =>
    IF Connections_HasPendingConnection(ctl[Dev], call'.pkt.src)
    THEN ExpectedPageResponse
    ELSE UnexpectedPageResponse(pending)

AuthenticationRunsAtDue ==
  call'.op = "HandleAuthenticationRequest" =>
    RanAtDue /\ Len(NewEvents(ctl[Dev], ctl'[Dev])) = 1

\* C30: a PageResponse from p with a pending connection for p creates a
\* handle, emits ConnectionComplete(SUCCESS, handle, p) and, if and only if
\* the pending connection carried the authenticate flag, runs
\* HandleAuthenticationRequest(p, handle) 5 ms later; without a pending
\* connection for p there is no event, no handle, and the authenticate flag
\* of any other pending connection is not consumed.
C30_PageResponseCompletes ==
  [][/\ PageResponseLeaving(ctl[Dev].connections_.pending_connections_)
     /\ AuthenticationRunsAtDue]_vars

\* What the code does: the unexpected PageResponse consumes the authenticate
\* flag of the pending connection to the other peer.
PageResponseConsumesFlag ==
  [][/\ PageResponseLeaving(
          {[address |-> p.address, authenticate |-> FALSE] :
             p \in ctl[Dev].connections_.pending_connections_})
     /\ AuthenticationRunsAtDue]_vars

\* An unexpected PageResponse arrived while a connection that is to be
\* authenticated was pending.
FlagConsumedByStranger ==
  /\ call.op = "IncomingPacket"
  /\ call.pkt.type = "PAGE_RESPONSE"
  /\ ~Connections_HasPendingConnection(call.pre, call.pkt.src)
  /\ \E p \in call.pre.connections_.pending_connections_ : p.authenticate
  /\ \A p \in ctl[Dev].connections_.pending_connections_ : ~p.authenticate

\* A flagged pending connection completed and its authentication request ran.
AuthenticatedOnCompletion ==
  /\ call.op = "HandleAuthenticationRequest"
  /\ now = 5

(***************************************************************************)
(* SpecLeConn: the host arms LE connects, fills the LE connect list and    *)
(* switches scanning while advertisements of every type arrive.            *)
(***************************************************************************)
LeAddressTypes == {PUBLIC_DEVICE_ADDRESS, RANDOM_DEVICE_ADDRESS}

AdvertisementTypes == {"ADV_IND", "ADV_DIRECT_IND", "ADV_NONCONN_IND"}

LeConnArm ==
  \E addr \in Peers, type \in LeAddressTypes :
    Step("ArmLeConnect", kReservedHandle, addr, type, NoPacket,
         ArmLeConnect(ctl[Dev], addr, type))
    /\ UNCHANGED log

LeConnSetLeScanEnable ==
  \E opcode \in {"NONE", "LE_SET_SCAN_ENABLE"} :
    Cmd("SetLeScanEnable", kReservedHandle, kEmpty,
        SetLeScanEnable(ctl[Dev], opcode))

LeConnReceiveAdvertisement ==
  \E addr \in Peers, type \in LeAddressTypes, adv \in AdvertisementTypes :
    Receive(Packet("LE_ADVERTISEMENT", addr, AddrA,
                   [address_type |-> type, advertisement_type |-> adv,
                    data |-> <<>>]))

NextLeConn ==
  \/ LeConnArm
  \/ DoLeConnectListAddDevice
  \/ LeConnSetLeScanEnable
  \/ LeConnReceiveAdvertisement
  \/ RunTask
  \/ AdvanceTime

SpecLeConn == Init /\ [][NextLeConn]_vars

IsLeConnectTask(task) ==
  task.cb.name = "send_to_remote_" /\ task.cb.pkt.type = "LE_CONNECT"

\* The step received an LE advertisement.
AdvertisementStep ==
  call'.op = "IncomingPacket" /\ call'.pkt.type = "LE_ADVERTISEMENT"

\* The advertisement is one the controller connects to.
ConnectsTo(c, pkt) ==
  \/ /\ c.le_connect_
     /\ c.le_peer_address_ = pkt.src
     /\ c.le_peer_address_type_ = pkt.arg.address_type
     /\ pkt.arg.advertisement_type \in {"ADV_IND", "ADV_DIRECT_IND"}
  \/ \E i \in 1..Len(c.le_connect_list_) :
       c.le_connect_list_[i] = <<pkt.src, pkt.arg.address_type>>

\* Only an advertisement hands an LeConnect to the link layer.
LeConnectOnlyForAdvertisement ==
  CountIn(ctl'[Dev].tasks, IsLeConnectTask)
      > CountIn(ctl[Dev].tasks, IsLeConnectTask)
    => AdvertisementStep

\* What an advertisement does about connecting.
LeConnectAsSpecified ==
  AdvertisementStep =>
    LET pre == ctl[Dev]
        post == ctl'[Dev]
        pkt == call'.pkt
        peer == AddressWithType(pkt.src, pkt.arg.address_type)
        added == NewTasks(pre, post)
        connects == {k \in DOMAIN added : IsLeConnectTask(added[k])}
    IN /\ Cardinality(connects) <= 1
       /\ connects # {} =>
            /\ ConnectsTo(pre, pkt)
            /\ \A k \in connects :
                 /\ added[k].due = now + 50
                 /\ added[k].cb.arg = "LOW_ENERGY"
                 /\ added[k].cb.pkt.dst = pkt.src
            /\ post.connections_.pending_le_connections_ =
                 Connections_CreatePendingLeConnection(pre, peer)
                   .connections_.pending_le_connections_
            /\ post.connections_.pending_le_connections_ # {}
            /\ ~post.le_connect_
            /\ post.le_scan_enable_ = "NONE"
       /\ (~pre.le_connect_ /\ pre.le_scan_enable_ = "NONE") =>
            post = pre

AdvertisementAfterLeConnect ==
  /\ call.op = "IncomingPacket"
  /\ call.pkt.type = "LE_ADVERTISEMENT"
  /\ ~call.pre.le_connect_
  /\ call.pre.le_scan_enable_ = "NONE"
  /\ call.pre.connections_.pending_le_connections_ # {}
  /\ ctl[Dev] = call.pre

(***************************************************************************)
(* SpecAdvSets: the host configures, enables, disables, removes and clears *)
(* advertising sets, with advertising handles inside and outside the       *)
(* advertiser array.                                                       *)
(***************************************************************************)
\* The advertising handles the host passes: the sets and two beyond them.
AnyAdvertisingHandle == 0..(NumAdvertisers + 1)

SetDurations == {0, 3}

\* What indexing one past the advertiser array does.
OutOfBounds == {"crash", "none"}

EnabledSets ==
  LET One == [advertising_handle_ : AnyAdvertisingHandle,
              duration_ : SetDurations]
  IN {<<s>> : s \in One}
       \cup {<<s, t>> : s \in One,
                        t \in [advertising_handle_ : AnyAdvertisingHandle,
                               duration_ : {0}]}

AdvSetsSetAddress ==
  \E set \in AdvertisingSets :
    CmdArg("SetLeExtendedAddress", set,
           SetLeExtendedAddress(ctl[Dev], set, AddrAdv))

AdvSetsEnable ==
  \E enable \in BOOLEAN, enabled_sets \in EnabledSets, ub \in OutOfBounds :
    /\ Step("SetLeExtendedAdvertisingEnable", kReservedHandle, kEmpty,
            [enable |-> enable, enabled_sets |-> enabled_sets], NoPacket,
            SetLeExtendedAdvertisingEnable(ctl[Dev], enable, enabled_sets, ub))
    /\ UNCHANGED log

AdvSetsRemove ==
  \E set \in AnyAdvertisingHandle :
    CmdArg("LeRemoveAdvertisingSet", set,
           LeRemoveAdvertisingSet(ctl[Dev], set))

AdvSetsClear ==
  Cmd("LeClearAdvertisingSets", kReservedHandle, kEmpty,
      LeClearAdvertisingSets(ctl[Dev]))

NextAdvSets ==
  \/ AdvSetsSetAddress
  \/ AdvSetsEnable
  \/ AdvSetsRemove
  \/ AdvSetsClear

SpecAdvSets == Init /\ [][NextAdvSets]_vars

AnySetEnabled(c) ==
  \E i \in DOMAIN c.advertisers_ : c.advertisers_[i].enabled_

\* C32: LeClearAdvertisingSets is all-or-nothing: with an enabled set it
\* returns COMMAND_DISALLOWED and leaves the controller, every advertiser
\* included, as it was; with no enabled set it returns SUCCESS and every
\* advertiser is as after construction.
C32_ClearAllOrNothing ==
  [][call'.op = "LeClearAdvertisingSets" =>
       IF AnySetEnabled(ctl[Dev])
       THEN ctl'[Dev] = Return(ctl[Dev], COMMAND_DISALLOWED)
       ELSE /\ ctl'[Dev].ret = SUCCESS
            /\ \A i \in DOMAIN ctl'[Dev].advertisers_ :
                 ctl'[Dev].advertisers_[i] = NewAdvertiser
            /\ [ctl'[Dev] EXCEPT !.advertisers_ = ctl[Dev].advertisers_,
                                 !.ret = ctl[Dev].ret] = ctl[Dev]]_vars

\* The clear was refused while the second set was enabled and the first,
\* disabled, set had an address to lose.
C32_Witness ==
  /\ call.op = "LeClearAdvertisingSets"
  /\ ctl[Dev].ret = COMMAND_DISALLOWED
  /\ ~call.pre.advertisers_[0].enabled_
  /\ call.pre.advertisers_[0] # NewAdvertiser
  /\ call.pre.advertisers_[1].enabled_

\* A clear succeeded and wiped a configured set.
ClearedConfiguredSet ==
  /\ call.op = "LeClearAdvertisingSets"
  /\ ctl[Dev].ret = SUCCESS
  /\ \E i \in DOMAIN call.pre.advertisers_ :
       call.pre.advertisers_[i] # NewAdvertiser

(***************************************************************************)
(* SpecUpdate: LeConnectionUpdate with parameters on both sides of every   *)
(* bound, on live handles and on handles that die before the completion.   *)
(***************************************************************************)
\* <<interval_min, interval_max, latency, supervision_timeout>>.
UpdateParameters ==
  {<<6, 8, 0, 100>>, <<6, 3200, 0, 801>>, <<6, 6, 499, 3200>>,
   <<7, 7, 5, 11>>, <<5, 8, 0, 100>>, <<6, 3201, 0, 3200>>,
   <<8, 6, 0, 100>>, <<6, 8, 500, 3200>>, <<6, 8, 0, 9>>,
   <<6, 8, 0, 3201>>, <<6, 3200, 0, 800>>, <<7, 7, 5, 10>>}

UpdateLeConnection ==
  \E handle \in Handles, p \in UpdateParameters :
    Cmd("LeConnectionUpdate", handle, kEmpty,
        LeConnectionUpdate(ctl[Dev],
          [handle |-> handle, interval_min |-> p[1], interval_max |-> p[2],
           latency |-> p[3], supervision_timeout |-> p[4]]))

NextUpdate ==
  \/ DoCreateConnection
  \/ ReceivePageResponse
  \/ UpdateLeConnection
  \/ DoDisconnect
  \/ RunTask
  \/ AdvanceTime

SpecUpdate == Init /\ [][NextUpdate]_vars

\* The parameters the specification rejects.
UpdateRejected(u) ==
  \/ u.interval_min < 6
  \/ u.interval_max > 3200
  \/ u.interval_min > u.interval_max
  \/ u.latency > 499
  \/ u.supervision_timeout < 10
  \/ u.supervision_timeout > 3200
  \/ u.supervision_timeout
       <= (((1 + u.latency) * u.interval_max * 10) \div 4) \div 10

\* The command: SUCCESS and one completion at +25 ms on a live handle.
UpdateAsSpecified ==
  call'.op = "LeConnectionUpdate" /\ call'.pre = ctl[Dev] =>
    IF ~Connections_HasHandle(ctl[Dev], call'.handle)
    THEN ctl'[Dev] = Return(ctl[Dev], UNKNOWN_CONNECTION)
    ELSE LET added == NewTasks(ctl[Dev], ctl'[Dev])
         IN /\ ctl'[Dev].ret = SUCCESS
            /\ ctl'[Dev].hci = ctl[Dev].hci
            /\ Len(added) = 1
            /\ added[1].due = now + 25
            /\ added[1].cb.name = "LeConnectionUpdateComplete"
            /\ added[1].cb.handle = call'.handle
            /\ added[1].cb.arg.handle = call'.handle

\* The completion: one event with the averaged interval and the status.
UpdateCompleteAsSpecified ==
  (call'.op = "LeConnectionUpdateComplete" /\ call'.pre = ctl[Dev]
     /\ ctl[Dev].tasks # ctl'[Dev].tasks) =>
    LET u == ctl[Dev].tasks[Scheduler_Next(ctl[Dev])].cb.arg
        events == NewEvents(ctl[Dev], ctl'[Dev])
    IN /\ RanAtDue
       /\ TasksAddedByRun = <<>>
       /\ Len(events) = 1
       /\ events[1].ev = "LeMetaEvent:LeConnectionUpdateComplete"
       /\ events[1].handle = u.handle
       /\ events[1].arg.interval = (u.interval_min + u.interval_max) \div 2
       /\ events[1].status =
            IF UpdateRejected(u) THEN INVALID_HCI_COMMAND_PARAMETERS
            ELSE IF ~Connections_HasHandle(ctl[Dev], u.handle)
                 THEN UNKNOWN_CONNECTION
                 ELSE SUCCESS

\* C33: LeConnectionUpdate on a live handle returns SUCCESS and schedules
\* one completion 25 ms later; the completion emits exactly one
\* LeConnectionUpdateComplete with interval (min + max) / 2 whose status is
\* INVALID_HCI_COMMAND_PARAMETERS exactly for parameters outside the bounds,
\* else UNKNOWN_CONNECTION when the handle is no longer live, else SUCCESS.
C33_ConnectionUpdateStatus ==
  [][UpdateAsSpecified /\ UpdateCompleteAsSpecified]_vars

\* A completion whose only fault is a supervision timeout equal to the bound
\* computed from latency and interval was reported as invalid.
C33_Witness ==
  /\ call.op = "LeConnectionUpdateComplete"
  /\ ctl[Dev].hci # <<>>
  /\ LET e == ctl[Dev].hci[Len(ctl[Dev].hci)]
     IN /\ e.ev = "LeMetaEvent:LeConnectionUpdateComplete"
        /\ e.status = INVALID_HCI_COMMAND_PARAMETERS
        /\ e.arg.interval = 7
        /\ e.arg.supervision_timeout = 10

\* A completion with valid parameters found its handle disconnected.
UpdateCompletedAfterDisconnect ==
  /\ call.op = "LeConnectionUpdateComplete"
  /\ ctl[Dev].hci # <<>>
  /\ ctl[Dev].hci[Len(ctl[Dev].hci)].ev
       = "LeMetaEvent:LeConnectionUpdateComplete"
  /\ ctl[Dev].hci[Len(ctl[Dev].hci)].status = UNKNOWN_CONNECTION

\* A completion reported SUCCESS.
UpdateSucceeded ==
  /\ call.op = "LeConnectionUpdateComplete"
  /\ ctl[Dev].hci # <<>>
  /\ ctl[Dev].hci[Len(ctl[Dev].hci)].ev
       = "LeMetaEvent:LeConnectionUpdateComplete"
  /\ ctl[Dev].hci[Len(ctl[Dev].hci)].status = SUCCESS

(***************************************************************************)
(* SpecConnList: the host adds to, removes from and clears the LE connect  *)
(* list.                                                                   *)
(***************************************************************************)
ConnListAdd ==
  \E addr \in Peers, type \in LeAddressTypes :
    Step("LeConnectListAddDevice", kReservedHandle, addr, type, NoPacket,
         LeConnectListAddDevice(ctl[Dev], addr, type))
    /\ UNCHANGED log

ConnListRemove ==
  \E addr \in Peers, type \in LeAddressTypes :
    Step("LeConnectListRemoveDevice", kReservedHandle, addr, type, NoPacket,
         LeConnectListRemoveDevice(ctl[Dev], addr, type))
    /\ UNCHANGED log

ConnListClear ==
  Cmd("LeConnectListClear", kReservedHandle, kEmpty,
      LeConnectListClear(ctl[Dev]))

NextConnList ==
  \/ ConnListAdd
  \/ ConnListRemove
  \/ ConnListClear

SpecConnList == InitLists /\ [][NextConnList]_vars

NoPairTwice(list) ==
  \A i, j \in DOMAIN list : list[i] = list[j] => i = j

RECURSIVE Without(_, _)
\* list without the entries equal to pair, the others in their order.
Without(list, pair) ==
  IF list = <<>> THEN <<>>
  ELSE IF Head(list) = pair THEN Without(Tail(list), pair)
       ELSE <<Head(list)>> \o Without(Tail(list), pair)

ConnListAddAsSpecified ==
  call'.op = "LeConnectListAddDevice" =>
    LET pair == <<call'.addr, call'.arg>>
        list == ctl[Dev].le_connect_list_
    IN ctl'[Dev] =
         IF \E i \in DOMAIN list : list[i] = pair
         THEN ctl[Dev]
         ELSE [ctl[Dev] EXCEPT !.le_connect_list_ = Append(list, pair)]

ConnListRemoveAsSpecified ==
  call'.op = "LeConnectListRemoveDevice" =>
    /\ ~LeConnectListContainsDevice(ctl'[Dev], call'.addr, call'.arg)
    /\ ctl'[Dev] =
         [ctl[Dev] EXCEPT !.le_connect_list_ =
            Without(@, <<call'.addr, call'.arg>>)]

ConnListClearAsSpecified ==
  call'.op = "LeConnectListClear" =>
    ctl'[Dev] = [ctl[Dev] EXCEPT !.le_connect_list_ = <<>>]

\* C34: after any sequence of LeConnectListAddDevice, LeConnectListRemoveDevice
\* and LeConnectListClear no (address, type) pair is on the LE connect list
\* twice; adding a pair that is present changes nothing; after a removal the
\* pair is not contained and the other entries keep their order.
C34_ConnectListNoDuplicates ==
  [][/\ NoPairTwice(ctl'[Dev].le_connect_list_)
     /\ ConnListAddAsSpecified
     /\ ConnListRemoveAsSpecified
     /\ ConnListClearAsSpecified]_vars

\* The middle pair of three was removed and the outer two stayed in order.
C34_Witness ==
  /\ call.op = "LeConnectListRemoveDevice"
  /\ Len(call.pre.le_connect_list_) = 3
  /\ call.pre.le_connect_list_[2] = <<call.addr, call.arg>>
  /\ ctl[Dev].le_connect_list_ =
       <<call.pre.le_connect_list_[1], call.pre.le_connect_list_[3]>>

\* A pair that was on the list was added again.
AddedPresentPair ==
  /\ call.op = "LeConnectListAddDevice"
  /\ LeConnectListContainsDevice(call.pre, call.addr, call.arg)
  /\ ctl[Dev] = call.pre

\* The step ended a page with a rejection: the responder ran
\* RejectSlaveConnection, or the initiator received PageReject.
RejectedPeer(addr) ==
  \/ call'.op = "RejectSlaveConnection" /\ call'.addr = addr
  \/ /\ call'.op = "IncomingPacket"
     /\ call'.pkt.type = "PAGE_REJECT"
     /\ call'.pkt.src = addr

\* C35: a pending connection ends with the rejection of its page: once the
\* responder has run RejectSlaveConnection for a peer, or the initiator has
\* received the peer's PageReject and reported ConnectionComplete with the
\* reason, no pending connection for that peer remains.
C35_PendingEndsOnReject ==
  [][\A addr \in Peers :
       RejectedPeer(addr) =>
         ~Connections_HasPendingConnection(ctl'[Dev], addr)]_vars

\* What the code does: a rejection leaves the pending table as it was.
RejectKeepsPending ==
  [][\A addr \in Peers :
       RejectedPeer(addr) =>
         ctl'[Dev].connections_.pending_connections_
           = ctl[Dev].connections_.pending_connections_]_vars

\* A CreateConnection to a peer was refused with CONTROLLER_BUSY after the
\* host had been told that the page to that peer was rejected.
BusyAfterReject ==
  /\ call.op = "CreateConnection"
  /\ ctl[Dev].ret = CONTROLLER_BUSY
  /\ \E k \in DOMAIN ctl[Dev].hci :
       /\ ctl[Dev].hci[k].ev = "ConnectionComplete"
       /\ ctl[Dev].hci[k].status \in RejectReasons
       /\ ctl[Dev].hci[k].addr = call.addr

(***************************************************************************)
(* SpecSlot: authentications, link-key replies, negative IO capability     *)
(* responses and disconnects from both sides, in any order.                *)
(***************************************************************************)
ReceiveIoCapabilityNegativeResponse ==
  \E p \in Peers :
    Receive(Packet("IO_CAPABILITY_NEGATIVE_RESPONSE", p, AddrA,
                   AUTHENTICATION_FAILURE))

NextSlot ==
  \/ DoCreateConnection
  \/ ReceivePageResponse
  \/ DoAuthenticationRequested
  \/ DoLinkKeyRequestReply
  \/ ReceiveIoCapabilityNegativeResponse
  \/ DoDisconnect
  \/ ReceiveDisconnectWithReason
  \/ RunTask
  \/ AdvanceTime

SpecSlot == Init /\ [][NextSlot]_vars

\* The step ran code that asserts on the authentication slot.
SlotAsserted ==
  \/ call'.op \in {"AuthenticateRemoteStage1", "AuthenticateRemoteStage2"}
  \/ /\ call'.op = "IncomingPacket"
     /\ call'.pkt.type = "IO_CAPABILITY_NEGATIVE_RESPONSE"

\* The step ran code that asserts on connections_.Disconnect(handle).
DisconnectAsserted ==
  \/ call'.op = "Disconnect"
  \/ call'.op = "IncomingPacket" /\ call'.pkt.type = "DISCONNECT"

\* C36: the assertions on the authentication slot (AuthenticateRemoteStage1,
\* AuthenticateRemoteStage2, IncomingIoCapabilityNegativeResponsePacket) and
\* on connections_.Disconnect (Disconnect, IncomingDisconnectPacket) hold
\* whenever they are reached: no such step terminates the controller.
C36_AssertionsHold ==
  [][(SlotAsserted \/ DisconnectAsserted) => ~ctl'[Dev].aborted]_vars

\* The assertions on connections_.Disconnect do hold.
DisconnectAssertionsHold ==
  [][DisconnectAsserted => ~ctl'[Dev].aborted]_vars

\* A negative IO capability response arrived while no authentication was
\* in progress, and the controller terminated.
StrangerFailsAssertion ==
  /\ call.op = "IncomingPacket"
  /\ call.pkt.type = "IO_CAPABILITY_NEGATIVE_RESPONSE"
  /\ ~call.pre.security_manager_.authenticating_
  /\ Security_GetAuthenticationAddress(call.pre) = kEmpty
  /\ ctl[Dev].aborted

\* Stage 2, scheduled by a LinkKeyRequestReply, found the slot holding
\* another address than its peer, and the controller terminated.
Stage2FailsAssertion ==
  /\ call.op = "AuthenticateRemoteStage2"
  /\ Security_GetAuthenticationAddress(call.pre) # call.addr
  /\ ctl[Dev].aborted

\* The step receives a rejection (all-zero LTK) for the unencrypted
\* connection h.
RejectionArrivesFor(h) ==
  /\ LeResponseArrives
  /\ call'.pkt.arg.ltk = ZeroKey
  /\ Connections_GetHandleOnlyAddress(ctl[Dev], call'.pkt.src) = h
  /\ ~Connections_IsEncrypted(ctl[Dev], h)

\* C37: an LeEncryptConnectionResponse with an all-zero LTK, received for an
\* unencrypted connection, leaves the connection unencrypted.
C37_RejectionLeavesUnencrypted ==
  [][\A h \in Live(ctl[Dev]) :
       RejectionArrivesFor(h) => ~Connections_IsEncrypted(ctl'[Dev], h)]_vars

\* What the code does: the rejection marks the connection encrypted and
\* tells the host EncryptionChange(AUTHENTICATION_FAILURE, ON).
RejectionEncrypts ==
  [][\A h \in Live(ctl[Dev]) :
       RejectionArrivesFor(h) =>
         /\ Connections_IsEncrypted(ctl'[Dev], h)
         /\ NewEvents(ctl[Dev], ctl'[Dev]) =
              <<Event("EncryptionChange", AUTHENTICATION_FAILURE, h,
                      kEmpty, 1)>>]_vars

\* A connection stands encrypted after nothing but a rejection.
EncryptedByRejection ==
  /\ call.op = "IncomingPacket"
  /\ call.pkt.type = "LE_ENCRYPT_CONNECTION_RESPONSE"
  /\ call.pkt.arg.ltk = ZeroKey
  /\ \E h \in Live(ctl[Dev]) :
       /\ h \in Live(call.pre)
       /\ ~Connections_IsEncrypted(call.pre, h)
       /\ Connections_IsEncrypted(ctl[Dev], h)

\* Whether the command names an advertising handle that is no index of the
\* advertiser array.
NamesInvalidSet(enabled_sets) ==
  \E k \in DOMAIN enabled_sets :
    enabled_sets[k].advertising_handle_ >= NumAdvertisers

\* The last entry of enabled_sets that names set i, or 0.
LastEntryFor(enabled_sets, i) ==
  LET entries == {k \in DOMAIN enabled_sets :
                    enabled_sets[k].advertising_handle_ = i}
  IN IF entries = {} THEN 0
     ELSE CHOOSE k \in entries : \A m \in entries : m <= k

\* SetLeExtendedAdvertisingEnable with the bound handle >= number of sets.
ExtendedEnableAsSpecified ==
  call'.op = "SetLeExtendedAdvertisingEnable" =>
    LET enable == call'.arg.enable
        enabled_sets == call'.arg.enabled_sets
        pre == ctl[Dev]
        post == ctl'[Dev]
    IN IF NamesInvalidSet(enabled_sets)
       THEN post = Return(pre, INVALID_HCI_COMMAND_PARAMETERS)
       ELSE /\ post.ret = SUCCESS
            /\ ~post.aborted
            /\ \A i \in AdvertisingSets :
                 LET k == LastEntryFor(enabled_sets, i)
                 IN IF k = 0
                    THEN post.advertisers_[i] = pre.advertisers_[i]
                    ELSE /\ post.advertisers_[i].enabled_ = enable
                         /\ enable =>
                              post.advertisers_[i].duration_
                                = 10 * enabled_sets[k].duration_

\* LeRemoveAdvertisingSet with the same index bound.
RemoveSetAsSpecified ==
  call'.op = "LeRemoveAdvertisingSet" =>
    ctl'[Dev] =
      IF call'.arg >= NumAdvertisers
      THEN Return(ctl[Dev], INVALID_HCI_COMMAND_PARAMETERS)
      ELSE Return([ctl[Dev] EXCEPT !.advertisers_[call'.arg].enabled_ = FALSE],
                  SUCCESS)

\* C38: SetLeExtendedAdvertisingEnable validates every advertising handle
\* before it changes anything: with a handle that is no index of the
\* advertiser array (handle >= number of sets) it returns
\* INVALID_HCI_COMMAND_PARAMETERS and modifies no advertiser; otherwise only
\* the listed sets are enabled (duration 10 ms * duration_) or disabled and
\* the others are unchanged; LeRemoveAdvertisingSet applies the same bound.
C38_ExtendedEnableValidates ==
  [][ExtendedEnableAsSpecified /\ RemoveSetAsSpecified]_vars

\* What the code does: the bound is kept by every command that does not name
\* the handle equal to the number of sets.
ExtendedEnableValidatesBeyond ==
  [][(/\ call'.op = "SetLeExtendedAdvertisingEnable"
      /\ \E k \in DOMAIN call'.arg.enabled_sets :
           call'.arg.enabled_sets[k].advertising_handle_ = NumAdvertisers)
       \/ ExtendedEnableAsSpecified]_vars

\* LeRemoveAdvertisingSet does apply the bound.
RemoveSetValidates == [][RemoveSetAsSpecified]_vars

\* The handle equal to the number of sets passed the validation: the command
\* enabled the valid set listed before it and indexed one past the array.
EnabledPastTheArray ==
  /\ call.op = "SetLeExtendedAdvertisingEnable"
  /\ call.arg.enable
  /\ Len(call.arg.enabled_sets) = 2
  /\ call.arg.enabled_sets[1].advertising_handle_ = 0
  /\ call.arg.enabled_sets[2].advertising_handle_ = NumAdvertisers
  /\ ~call.pre.advertisers_[0].enabled_
  /\ ctl[Dev].advertisers_[0].enabled_

\* The events that announce a connection on a handle.
ConnectionEvents ==
  {"ConnectionComplete", "LeMetaEvent:LeConnectionComplete"}

\* The host has been told that h is disconnected and of no new connection
\* on h since.
Closed(c, h) ==
  \E k \in DOMAIN c.hci :
    /\ c.hci[k].ev = "DisconnectionComplete"
    /\ c.hci[k].handle = h
    /\ \A m \in DOMAIN c.hci :
         (m > k /\ c.hci[m].handle = h) => c.hci[m].ev \notin ConnectionEvents

\* The events about h that the step emits.
EventsAbout(h) ==
  {k \in DOMAIN NewEvents(ctl[Dev], ctl'[Dev]) :
     NewEvents(ctl[Dev], ctl'[Dev])[k].handle = h}

\* C39: once DisconnectionComplete for handle h has been emitted, no event
\* carrying h is emitted until h belongs to a new connection, also when
\* tasks for h were scheduled before the disconnect.
C39_NoEventAfterDisconnectionComplete ==
  [][\A h \in Handles :
       Closed(ctl[Dev], h) =>
         \A k \in EventsAbout(h) :
           NewEvents(ctl[Dev], ctl'[Dev])[k].ev \in ConnectionEvents]_vars

\* What the code does: a completion scheduled before the disconnect still
\* reports on the closed handle, never with SUCCESS.
LateEventsAreFailedUpdates ==
  [][\A h \in Handles :
       Closed(ctl[Dev], h) =>
         \A k \in EventsAbout(h) :
           LET e == NewEvents(ctl[Dev], ctl'[Dev])[k]
           IN \/ e.ev \in ConnectionEvents
              \/ /\ e.ev = "LeMetaEvent:LeConnectionUpdateComplete"
                 /\ e.status \in {UNKNOWN_CONNECTION,
                                  INVALID_HCI_COMMAND_PARAMETERS}
                 /\ call'.op = "LeConnectionUpdateComplete"]_vars

\* LeConnectionUpdateComplete for h reached the host 5 ms after the
\* DisconnectionComplete for h.
UpdateCompleteAfterDisconnectionComplete ==
  /\ call.op = "LeConnectionUpdateComplete"
  /\ Closed(call.pre, call.handle)
  /\ Len(ctl[Dev].hci) > 1
  /\ ctl[Dev].hci[Len(ctl[Dev].hci)].handle = call.handle
  /\ ctl[Dev].hci[Len(ctl[Dev].hci) - 1].ev = "DisconnectionComplete"
  /\ ctl[Dev].hci[Len(ctl[Dev].hci)].t
       = ctl[Dev].hci[Len(ctl[Dev].hci) - 1].t + 5

\* The step runs an InquiryTimeout task.
TimeoutRuns ==
  /\ call'.op = "InquiryTimeout"
  /\ call'.pre = ctl[Dev]
  /\ ctl'[Dev].tasks # ctl[Dev].tasks

\* The task the step runs.
TaskRun == ctl[Dev].tasks[Scheduler_Next(ctl[Dev])]

IsInquiryComplete(e) == e.ev = "InquiryComplete"

\* The timeout task of an inquiry that is not the active one does nothing.
StaleTimeoutIsSilent ==
  (TimeoutRuns /\ TaskRun.id # ctl[Dev].inquiry_timer_task_id_) =>
    /\ ctl'[Dev].hci = ctl[Dev].hci
    /\ ctl'[Dev].inquiry_timer_task_id_ = ctl[Dev].inquiry_timer_task_id_

\* InquiryComplete comes from the timeout of the active inquiry only.
CompleteFromActiveTimeout ==
  CountIn(ctl'[Dev].hci, IsInquiryComplete)
      > CountIn(ctl[Dev].hci, IsInquiryComplete)
    => TimeoutRuns /\ TaskRun.id = ctl[Dev].inquiry_timer_task_id_

\* C40: InquiryComplete is emitted only by the timeout of the inquiry that
\* is active; the timeout task of an earlier inquiry that was not cancelled
\* emits nothing and leaves the newer inquiry running.
C40_OnlyActiveInquiryCompletes ==
  [][StaleTimeoutIsSilent /\ CompleteFromActiveTimeout]_vars

\* What the code does: every timeout that finds an inquiry active, its own
\* or a newer one, emits InquiryComplete and ends it; a timeout that finds
\* none is silent; nothing else emits InquiryComplete.
TimeoutCompletesWhateverIsActive ==
  [][/\ TimeoutRuns =>
          IF InquiryActive(ctl[Dev])
          THEN /\ ~InquiryActive(ctl'[Dev])
               /\ Len(NewEvents(ctl[Dev], ctl'[Dev])) = 1
               /\ IsInquiryComplete(NewEvents(ctl[Dev], ctl'[Dev])[1])
          ELSE ctl'[Dev].hci = ctl[Dev].hci
     /\ CountIn(ctl'[Dev].hci, IsInquiryComplete)
            > CountIn(ctl[Dev].hci, IsInquiryComplete)
          => TimeoutRuns]_vars

\* The timeout of the first of two inquiries ended the second one, whose own
\* timeout was still to come.
StaleTimeoutEndedNewerInquiry ==
  /\ call.op = "InquiryTimeout"
  /\ InquiryActive(call.pre)
  /\ ~InquiryActive(ctl[Dev])
  /\ \E k \in DOMAIN ctl[Dev].tasks :
       /\ ctl[Dev].tasks[k].id = call.pre.inquiry_timer_task_id_
       /\ ctl[Dev].tasks[k].due > now
====
